---- MODULE Spec2Model ----
(***************************************************************************)
(* A model of atactk (ParkerLab/atactk): the bin-group parser of           *)
(* atactk/command.py and the parallel feature scoring of                   *)
(* atactk/metrics/cut.py and atactk/metrics/mid.py.                        *)
(*                                                                         *)
(* Two specifications share the module's variables:                        *)
(*   SpecBins  parse_bins applied to a bounded set of bin strings          *)
(*   Spec      the worker pool of score_features_with_cut_points /         *)
(*             score_features_with_midpoints                               *)
(***************************************************************************)
EXTENDS Integers, Sequences, FiniteSets, TLC

VARIABLES
    \* ---- parse_bins (command.py) ----
    bins_string,    \* the s-expression handed to parse_bins: a list of groups of tokens
    parse_state,    \* "idle" | "returned" | "raised"
    parsed,         \* what parse_bins returned or raised
    \* ---- the scoring pool (metrics/cut.py, metrics/mid.py) ----
    mode,           \* "cut": score_features_with_cut_points, "mid": score_features_with_midpoints
    features,       \* the features handed to score_features_with_*
    parallel,       \* the parallel argument: pool size and imap chunk size
    openable,       \* whether open_alignment_file succeeds on the alignment file
    coord,          \* the coordinator: "start" | "iterating" | "done" | "failed" | "killed"
    procs,          \* the worker processes of the pool
    spawned,        \* how many worker processes were started so far
    handles,        \* handles[h]: the process that opened alignment handle h
    fetches,        \* <<process, handle>>: a scoring call of the process fetched from the handle
    dispatched,     \* how many chunks of features workers took from the task queue
    imap,           \* the IMapIterator: next index, ordered items, out-of-order results
    finished,       \* the chunks in the order workers completed them
    chunk_items,    \* results of the current chunk the iterator has not yet yielded
    received,       \* the results the coordinator obtained, in order
    error,          \* the exception raised to the coordinator, "none" if none
    aggregate_tree, \* the coordinator's aggregate tree
    interrupted,    \* whether SIGINT was sent to the processes of the run
    \* ---- a call of reduce_scores / aggregate_scores ----
    v_scores,       \* the scores argument: one count per position
    v_resolution,   \* the resolution argument
    v_extension,    \* the extension argument of aggregate_scores
    v_state,        \* "idle" | "reduce_scores" | "aggregate_scores": the call made
    v_result,       \* what the call returned
    \* ---- a call of the filter, a counter or a scorer on one feature ----
    s_segments,     \* the aligned segments handed to the call (the reads of the source)
    s_feature,      \* the feature argument
    s_bin_groups,   \* the bin_groups argument
    s_flags,        \* the include_flags, exclude_flags and quality arguments
    s_offset,       \* the cut_point_offset argument
    s_state,        \* "idle" or the name of the function called
    s_result,       \* what the call returned
    \* ---- a region tree and the add_*_to_region_tree calls made on it ----
    t_kind,         \* "cut" | "mid": whose trees the tree is one of ("none": no tree)
    t_tree,         \* the tree
    t_vector,       \* the counts handed to the last call
    t_calls         \* how many calls were made on the tree

vecVars == <<v_scores, v_resolution, v_extension, v_state, v_result>>

scoreVars == <<s_segments, s_feature, s_bin_groups, s_flags, s_offset, s_state, s_result>>

treeVars == <<t_kind, t_tree, t_vector, t_calls>>

calcVars == <<vecVars, scoreVars, treeVars>>

binVars == <<bins_string, parse_state, parsed>>

inputVars == <<mode, features, parallel, openable>>

poolVars == <<mode, features, parallel, openable, coord, procs, spawned, handles, fetches,
              dispatched, imap, finished, chunk_items, received, error, aggregate_tree, interrupted>>

vars == <<bins_string, parse_state, parsed,
          mode, features, parallel, openable, coord, procs, spawned, handles, fetches,
          dispatched, imap, finished, chunk_items, received, error, aggregate_tree, interrupted,
          v_scores, v_resolution, v_extension, v_state, v_result,
          s_segments, s_feature, s_bin_groups, s_flags, s_offset, s_state, s_result,
          t_kind, t_tree, t_vector, t_calls>>

\* No tree was built.
TreeIdle == t_kind = "none" /\ t_tree = <<>> /\ t_vector = <<>> /\ t_calls = 0

\* No function of the vector or scoring specifications was called.
CalcIdle ==
    /\ v_scores = <<>> /\ v_resolution = 1 /\ v_extension = 0
    /\ v_state = "idle" /\ v_result = <<>>
    /\ s_segments = <<>> /\ s_feature = <<>> /\ s_bin_groups = <<>> /\ s_flags = <<>>
    /\ s_offset = 0 /\ s_state = "idle" /\ s_result = <<>>
    /\ TreeIdle

----------------------------------------------------------------------------
(***************************************************************************)
(* Bounds of the parse_bins inputs.                                        *)
(***************************************************************************)
MaxGroups == 2      \* groups in a bin string
MaxTokens == 4      \* tokens in a bin string, over all its groups

(***************************************************************************)
(* Bounds of the pool.                                                     *)
(***************************************************************************)
MaxFeatures == 3    \* features in a run
MaxParallel == 2    \* the parallel argument
MaxRespawns == 1    \* worker processes the pool starts to replace dead ones

(***************************************************************************)
(* Bounds of the score vectors.                                            *)
(***************************************************************************)
MaxLen == 4         \* positions in a score vector
MaxCount == 2       \* the count at a position
MaxResolution == 3  \* the resolution argument
MaxExtension == 2   \* the extension of a feature
MaxReads == 2       \* aligned segments handed to a call

(***************************************************************************)
(* Bounds of the region trees.                                             *)
(***************************************************************************)
MaxPositions == 2   \* positions in a vector added to a tree
MaxAdded == 1       \* the count a call adds at a position
MaxCalls == 2       \* calls made on one tree

----------------------------------------------------------------------------
(***************************************************************************)
(* Python values used by parse_bins.                                       *)
(***************************************************************************)

\* A call either returns a value or raises an exception of some type.
Returns(v) == [exc |-> "none", val |-> v]
Raises(type) == [exc |-> type, val |-> 0]

RECURSIVE SumSeq(_)
SumSeq(s) == IF s = <<>> THEN 0 ELSE Head(s) + SumSeq(Tail(s))

Digits == <<"0", "1", "2", "3", "4", "5", "6", "7", "8", "9">>

IsDigit(c) == \E i \in 1..Len(Digits) : Digits[i] = c

DigitValue(c) == (CHOOSE i \in 1..Len(Digits) : Digits[i] = c) - 1

RECURSIVE DecimalValue(_, _)
DecimalValue(s, acc) ==
    IF s = <<>> THEN acc
    ELSE DecimalValue(Tail(s), acc * 10 + DigitValue(Head(s)))

\* int(s) for a str s of the characters that survive split('-'): one or more
\* decimal digits, anything else is a ValueError.
int_of_str(s) ==
    IF s = <<>> \/ \E i \in 1..Len(s) : ~IsDigit(s[i])
    THEN Raises("ValueError")
    ELSE Returns(DecimalValue(s, 0))

\* str.split('-'): the pieces between the separators, empty pieces included.
RECURSIVE split(_, _)
split(s, piece) ==
    IF s = <<>> THEN <<piece>>
    ELSE IF Head(s) = "-" THEN <<piece>> \o split(Tail(s), <<>>)
    ELSE split(Tail(s), Append(piece, Head(s)))

\* The atoms sexpdata.loads produces: a token that reads as an integer is a
\* Python int, any other bare word is a sexpdata Symbol wrapping its text.
IntToken(n) == [kind |-> "int", val |-> n, text |-> <<>>]
SymbolToken(t) == [kind |-> "Symbol", val |-> 0, text |-> t]

\* int(token): an int is itself; a Symbol is neither a string nor a number.
int_of_token(token) ==
    IF token.kind = "int" THEN Returns(token.val) ELSE Raises("TypeError")

\* token.value(): the text of a Symbol; an int has no such attribute.
value_of_token(token) ==
    IF token.kind = "Symbol" THEN Returns(token.text) ELSE Raises("AttributeError")

----------------------------------------------------------------------------
(***************************************************************************)
(* command.py                                                              *)
(***************************************************************************)

\* A bin is the tuple (start, end, resolution).
Bin(start, end, resolution) == <<start, end, resolution>>

\* Python's tuple order, used by sorted().
BinLess(a, b) ==
    \/ a[1] < b[1]
    \/ a[1] = b[1] /\ a[2] < b[2]
    \/ a[1] = b[1] /\ a[2] = b[2] /\ a[3] < b[3]

RECURSIVE InsertBin(_, _)
InsertBin(b, sortedBins) ==
    IF sortedBins = <<>> THEN <<b>>
    ELSE IF BinLess(b, Head(sortedBins)) THEN <<b>> \o sortedBins
    ELSE <<Head(sortedBins)>> \o InsertBin(b, Tail(sortedBins))

RECURSIVE sorted(_)
sorted(bins) ==
    IF bins = <<>> THEN <<>> ELSE InsertBin(Head(bins), sorted(Tail(bins)))

RECURSIVE Flatten(_)
Flatten(groups) ==
    IF groups = <<>> THEN <<>> ELSE Head(groups) \o Flatten(Tail(groups))

OverlapsStrictly(start, last_end) == start < last_end
\* The comparison of check_bins_for_overlap, line 44.
OverlapsLast(start, last_end) == start <= last_end

\* check_bins_for_overlap: TRUE when it raises argparse.ArgumentTypeError.
RECURSIVE OverlapLoop(_, _)
OverlapLoop(bins, last_end) ==
    IF bins = <<>> THEN FALSE
    ELSE IF OverlapsLast(Head(bins)[1], last_end) THEN TRUE
    ELSE OverlapLoop(Tail(bins), Head(bins)[2])

check_bins_for_overlap(bins) == OverlapLoop(bins, 0)

\* The same without the swap of lines 158-160.
ParseBinUnswapped(bin_string, resolution) ==
    LET bin == split(bin_string, <<>>) IN
    IF Len(bin) # 2 THEN Raises("ValueError")
    ELSE LET s == int_of_str(bin[1])
             e == int_of_str(bin[2]) IN
         IF s.exc # "none" THEN s
         ELSE IF e.exc # "none" THEN e
         ELSE [exc |-> "none", val |-> Bin(s.val, e.val, resolution), backward |-> FALSE]

\* Lines 153-162: one range token's text to a bin.
ParseBin(bin_string, resolution) ==
    LET bin == split(bin_string, <<>>) IN
    IF Len(bin) # 2 THEN Raises("ValueError")
    ELSE LET s == int_of_str(bin[1])
             e == int_of_str(bin[2]) IN
         IF s.exc # "none" THEN s
         ELSE IF e.exc # "none" THEN e
         ELSE IF s.val > e.val
              THEN [exc |-> "none", val |-> Bin(e.val, s.val, resolution), backward |-> TRUE]
              ELSE [exc |-> "none", val |-> Bin(s.val, e.val, resolution), backward |-> FALSE]

\* An error raised by parse_bins: its type, the message it formats and the
\* indices the message reports.
ArgumentTypeError(what, g, i) ==
    [type |-> "ArgumentTypeError", what |-> what, group |-> g, bin |-> i]
OtherError(type, g, i) ==
    [type |-> type, what |-> "uncaught", group |-> g, bin |-> i]

\* Lines 151-164: the bins of one group, after its resolution was popped.
\* i is the 0-based index enumerate() gives the token.
RECURSIVE ParseBinsOfGroup(_, _, _, _, _)
ParseBinsOfGroup(tokens, g, i, resolution, group) ==
    IF tokens = <<>> THEN [status |-> "ok", group |-> group.bins, backward |-> group.backward]
    ELSE LET v == value_of_token(Head(tokens)) IN
         IF v.exc # "none"
         THEN [status |-> "error", error |-> OtherError(v.exc, g, i)]
         ELSE LET b == ParseBin(v.val, resolution) IN
              IF b.exc # "none"
              THEN [status |-> "error", error |-> ArgumentTypeError("malformed", g, i)]
              ELSE ParseBinsOfGroup(Tail(tokens), g, i + 1, resolution,
                       [bins |-> Append(group.bins, b.val),
                        backward |-> group.backward \cup (IF b.backward THEN {<<g, i>>} ELSE {})])

\* Lines 143-165: one group. pop() of an empty list raises IndexError, int()
\* of a Symbol raises TypeError; only ValueError is caught.
ParseGroup(bin_group, g) ==
    IF bin_group = <<>>
    THEN [status |-> "error", error |-> OtherError("IndexError", g, 0)]
    ELSE LET r == int_of_token(bin_group[Len(bin_group)])
             rest == SubSeq(bin_group, 1, Len(bin_group) - 1) IN
         IF r.exc # "none"
         THEN [status |-> "error", error |-> OtherError(r.exc, g, 0)]
         ELSE IF r.val < 1
         THEN [status |-> "error", error |-> ArgumentTypeError("resolution", g, 0)]
         ELSE ParseBinsOfGroup(rest, g, 0, r.val, [bins |-> <<>>, backward |-> {}])

\* Lines 141-165: the groups in order; the first error ends the loop.
RECURSIVE ParseGroups(_, _, _, _)
ParseGroups(bin_groups, g, groups, backward) ==
    IF bin_groups = <<>>
    THEN [status |-> "ok", groups |-> groups, backward |-> backward]
    ELSE LET r == ParseGroup(Head(bin_groups), g) IN
         IF r.status = "error" THEN r
         ELSE ParseGroups(Tail(bin_groups), g + 1, Append(groups, r.group),
                          backward \cup r.backward)

\* parse_bins: "status" is "ok" with the groups it returns (and the set of
\* (group, bin) places it reported as written backward), or "error" with the
\* exception that escapes.
parse_bins(s) ==
    LET r == ParseGroups(s, 0, <<>>, {}) IN
    IF r.status = "error"
    THEN [status |-> "error", groups |-> <<>>, backward |-> {}, error |-> r.error]
    ELSE IF check_bins_for_overlap(sorted(Flatten(r.groups)))
    THEN [status |-> "error", groups |-> <<>>, backward |-> {},
          error |-> ArgumentTypeError("overlap", 0, 0)]
    ELSE [status |-> "ok", groups |-> r.groups, backward |-> r.backward,
          error |-> OtherError("none", 0, 0)]

----------------------------------------------------------------------------
(***************************************************************************)
(* data.py: features, the alignment source and the read filter.            *)
(***************************************************************************)

None == [id |-> 0]      \* Python's None where an alignment handle is expected

\* int(round(n / 2.0)): halves round to the even neighbour.
RoundHalf(n) ==
    LET k == n \div 2 IN
    IF n % 2 = 0 THEN k ELSE IF k % 2 = 0 THEN k ELSE k + 1

feature_length(feature) == feature.feature_end - feature.feature_start
\* The feature's end taken for its center.
center_at_end(feature) == feature.feature_start + feature_length(feature)
center(feature) == feature.feature_start + RoundHalf(feature_length(feature))
is_reverse(feature) == feature.strand = "-"
region_start(feature) == center(feature) - feature.extension
region_end(feature) == center(feature) + feature.extension

Max(a, b) == IF a >= b THEN a ELSE b
Min(a, b) == IF a <= b THEN a ELSE b
Abs(a) == IF a < 0 THEN 0 - a ELSE a

RECURSIVE BitAnd(_, _)
BitAnd(a, b) ==
    IF a = 0 \/ b = 0 THEN 0
    ELSE (a % 2) * (b % 2) + 2 * BitAnd(a \div 2, b \div 2)

RECURSIVE SelectSeq2(_, _)
\* [a for a in s if Test(a)], with Test given as the set of elements that pass.
SelectSeq2(s, passing) ==
    IF s = <<>> THEN <<>>
    ELSE IF Head(s) \in passing THEN <<Head(s)>> \o SelectSeq2(Tail(s), passing)
    ELSE SelectSeq2(Tail(s), passing)

Elements(s) == {s[i] : i \in 1..Len(s)}

\* The filter with a read included only when its flag is one of the inclusion
\* flags.
filter_on_equal_flags(aligned_segments, include_flags, exclude_flags, quality) ==
    SelectSeq2(aligned_segments,
        {a \in Elements(aligned_segments) :
            /\ a.mapping_quality >= quality
            /\ a.flag \in include_flags
            /\ \A f \in exclude_flags : BitAnd(a.flag, f) = 0})

filter_aligned_segments(aligned_segments, include_flags, exclude_flags, quality) ==
    SelectSeq2(aligned_segments,
        {a \in Elements(aligned_segments) :
            /\ a.mapping_quality >= quality
            /\ \E f \in include_flags : BitAnd(a.flag, f) = f
            /\ \A f \in exclude_flags : BitAnd(a.flag, f) = 0})

\* alignment_file.fetch(reference, start, end) on an open handle: the reads of
\* the source that overlap [start, end), in coordinate order. A reference the
\* source does not hold is a ValueError; None has no fetch attribute.
fetch(alignment_file, source, reference, start, end) ==
    IF alignment_file = None THEN Raises("AttributeError")
    ELSE IF reference \notin source.references THEN Raises("ValueError")
    ELSE Returns(SelectSeq2(source.reads,
            {a \in Elements(source.reads) :
                a.reference_start < end /\ a.reference_end > start}))

----------------------------------------------------------------------------
(***************************************************************************)
(* util.py and metrics/common.py                                           *)
(***************************************************************************)

DEFAULT_CUT_POINT_OFFSET == 4

\* make_bin_group_key: '{start}_{end}' (or '{start}' when the end is 0) for each
\* bin, joined by ','. The key is kept as the list of the numbers it prints.
make_bin_group_key(bin_group) ==
    [name |-> "bins",
     bins |-> [i \in 1..Len(bin_group) |->
                  IF bin_group[i][2] # 0
                  THEN <<bin_group[i][1], bin_group[i][2]>>
                  ELSE <<bin_group[i][1]>>]]

\* The literal group key 'All' of the bare mode.
AllKey == [name |-> "All", bins |-> <<>>]

\* The first list alone.
first_list(l1, l2) == l1

\* add_lists: map(operator.add, l1, l2).
add_lists(l1, l2) == [i \in 1..Min(Len(l1), Len(l2)) |-> l1[i] + l2[i]]

\* take(count, seq) and what is left of the iterator.
take(count, seq) == SubSeq(seq, 1, Min(count, Len(seq)))

\* The same without the short list the sequence ends with.
RECURSIVE partition_full(_, _)
partition_full(count, seq) ==
    IF Len(seq) < count \/ seq = <<>> THEN <<>>
    ELSE <<SubSeq(seq, 1, count)>> \o partition_full(count, SubSeq(seq, count + 1, Len(seq)))

RECURSIVE partition(_, _)
partition(count, seq) ==
    IF take(count, seq) = <<>> THEN <<>>
    ELSE <<take(count, seq)>> \o partition(count, SubSeq(seq, Len(take(count, seq)) + 1, Len(seq)))

reduce_scores(scores, resolution) ==
    IF resolution = 1 THEN scores
    ELSE LET chunks == partition(resolution, scores) IN
         [i \in 1..Len(chunks) |-> SumSeq(chunks[i])]

----------------------------------------------------------------------------
(***************************************************************************)
(* metrics.py: aggregate_scores (its reduce_scores is that of common.py).  *)
(***************************************************************************)

\* An index of a Python slice: negative counts from the end, then clipped.
SliceIndex(seq, i) == IF i < 0 THEN Max(Len(seq) + i, 0) ELSE Min(i, Len(seq))

\* seq[lo:hi], seq[:hi] and seq[lo:]
Slice(seq, lo, hi) == SubSeq(seq, SliceIndex(seq, lo) + 1, SliceIndex(seq, hi))
SliceTo(seq, hi) == SubSeq(seq, 1, SliceIndex(seq, hi))
SliceFrom(seq, lo) == SubSeq(seq, SliceIndex(seq, lo) + 1, Len(seq))

aggregate_scores(scores, extension, resolution) ==
    reduce_scores(SliceTo(scores, extension), resolution)
    \o Slice(scores, extension, 0 - extension)
    \o reduce_scores(SliceFrom(scores, 0 - extension), resolution)

----------------------------------------------------------------------------
(***************************************************************************)
(* metrics/cut.py                                                          *)
(***************************************************************************)

find_cut_point(aligned_segment, cut_point_offset) ==
    IF aligned_segment.is_reverse
    THEN aligned_segment.reference_end - (cut_point_offset + 1)
    ELSE aligned_segment.reference_start + cut_point_offset

\* The counts of the forward reads alone.
count_forward_cut_points(aligned_segments, start, end, cut_point_offset) ==
    [i \in 1..Max(0, end - start) |->
        Cardinality({k \in 1..Len(aligned_segments) :
            /\ ~aligned_segments[k].is_reverse
            /\ find_cut_point(aligned_segments[k], cut_point_offset) = start + i - 1})]

\* One count for each position of range(start, end).
count_cut_points(aligned_segments, start, end, cut_point_offset) ==
    [i \in 1..Max(0, end - start) |->
        Cardinality({k \in 1..Len(aligned_segments) :
            find_cut_point(aligned_segments[k], cut_point_offset) = start + i - 1})]

EmptyDict == <<>>

\* Lines 118-125: one positive count into the nested dictionaries.
TreeAdd(region_tree, position, group_key, strand, count) ==
    LET t1 == IF position \in DOMAIN region_tree
              THEN region_tree ELSE region_tree @@ (position :> EmptyDict)
        g1 == IF group_key \in DOMAIN t1[position]
              THEN t1[position] ELSE t1[position] @@ (group_key :> EmptyDict)
        s1 == IF strand \in DOMAIN g1[group_key]
              THEN [g1[group_key] EXCEPT ![strand] = @ + count]
              ELSE g1[group_key] @@ (strand :> count)
    IN [t1 EXCEPT ![position] = [g1 EXCEPT ![group_key] = s1]]

\* The loop without its test of the count: every count is stored.
RECURSIVE AddEveryCount(_, _, _, _, _)
AddEveryCount(region_tree, group_key, strand, cut_points, i) ==
    IF i > Len(cut_points) THEN region_tree
    ELSE AddEveryCount(
             TreeAdd(region_tree, (0 - (Len(cut_points) \div 2)) + (i - 1), group_key, strand,
                     cut_points[i]),
             group_key, strand, cut_points, i + 1)

\* Lines 116-125: enumerate(cut_points, 0 - (len(cut_points) // 2)).
RECURSIVE AddCutPointsLoop(_, _, _, _, _)
AddCutPointsLoop(region_tree, group_key, strand, cut_points, i) ==
    IF i > Len(cut_points) THEN region_tree
    ELSE LET position == (0 - (Len(cut_points) \div 2)) + (i - 1)
             count == cut_points[i] IN
         AddCutPointsLoop(
             IF count > 0 THEN TreeAdd(region_tree, position, group_key, strand, count)
             ELSE region_tree,
             group_key, strand, cut_points, i + 1)

add_cut_points_to_region_tree(region_tree, group_key, strand, cut_points) ==
    AddCutPointsLoop(region_tree, group_key, strand, cut_points, 1)

Unreversed(s) == s
Reversed(s) == [i \in 1..Len(s) |-> s[Len(s) + 1 - i]]

\* '\t'.join(str(score) for score in row): the scores it prints, in order.
TabJoined(row) == [tab_joined |-> row]

\* Lines 181-201: one bin of a group. st is (group_rows, tree).
ScoreCutBin(st, bin, group_key, aligned_segments, feature, cut_point_offset) ==
    LET minimum_length == bin[1]
        maximum_length == bin[2]
        resolution == bin[3]
        in_bin == {a \in Elements(aligned_segments) :
                      minimum_length <= Abs(a.isize) /\ Abs(a.isize) <= maximum_length}
        aligned_segments_in_bin == SelectSeq2(aligned_segments, in_bin)
        forward_aligned_segments ==
            SelectSeq2(aligned_segments_in_bin, {a \in in_bin : ~a.is_reverse})
        reverse_aligned_segments ==
            SelectSeq2(aligned_segments_in_bin, {a \in in_bin : a.is_reverse})
        fwd == count_cut_points(forward_aligned_segments,
                   region_start(feature), region_end(feature), cut_point_offset)
        rev == count_cut_points(reverse_aligned_segments,
                   region_start(feature), region_end(feature), cut_point_offset)
        forward_cut_points == IF is_reverse(feature) THEN Reversed(rev) ELSE fwd
        reverse_cut_points == IF is_reverse(feature) THEN Reversed(fwd) ELSE rev
        bin_scores == reduce_scores(forward_cut_points, resolution)
                      \o reduce_scores(reverse_cut_points, resolution)
    IN [group_rows |-> Append(st.group_rows, bin_scores),
        tree |-> add_cut_points_to_region_tree(
                     add_cut_points_to_region_tree(st.tree, group_key, "F", forward_cut_points),
                     group_key, "R", reverse_cut_points)]

RECURSIVE ScoreCutBins(_, _, _, _, _, _)
ScoreCutBins(st, bins, group_key, aligned_segments, feature, cut_point_offset) ==
    IF bins = <<>> THEN st
    ELSE ScoreCutBins(
             ScoreCutBin(st, Head(bins), group_key, aligned_segments, feature, cut_point_offset),
             Tail(bins), group_key, aligned_segments, feature, cut_point_offset)

\* functools.reduce(add_lists, group_rows): a TypeError on an empty list.
RECURSIVE ReduceAddLists(_, _)
ReduceAddLists(acc, group_rows) ==
    IF group_rows = <<>> THEN acc
    ELSE ReduceAddLists(add_lists(acc, Head(group_rows)), Tail(group_rows))

\* Lines 178-206: the groups in order. st is (exc, row, tree).
RECURSIVE ScoreCutGroups(_, _, _, _, _)
ScoreCutGroups(st, bin_groups, aligned_segments, feature, cut_point_offset) ==
    IF bin_groups = <<>> \/ st.exc # "none" THEN st
    ELSE LET group == Head(bin_groups)
             g == ScoreCutBins([group_rows |-> <<>>, tree |-> st.tree], group,
                      make_bin_group_key(group), aligned_segments, feature, cut_point_offset)
         IN ScoreCutGroups(
                IF Len(group) = 1
                THEN [exc |-> "none", row |-> st.row \o g.group_rows[1], tree |-> g.tree]
                ELSE IF g.group_rows = <<>>
                THEN [exc |-> "TypeError", row |-> st.row, tree |-> g.tree]
                ELSE [exc |-> "none",
                      row |-> st.row \o ReduceAddLists(Head(g.group_rows), Tail(g.group_rows)),
                      tree |-> g.tree],
                Tail(bin_groups), aligned_segments, feature, cut_point_offset)

ReusedTree(previous) == previous
\* Line 175: the tree of a scoring call is a new dictionary, whatever tree the
\* process built before.
LocalTree(previous) == EmptyDict

\* score_feature_with_cut_points, with the module's alignment_file and the
\* source it reads as explicit arguments; previous is the tree the process
\* built in its last call.
score_feature_with_cut_points(alignment_file, source, previous, bin_groups, include_flags, exclude_flags, quality, cut_point_offset, feature) ==
    LET fetched == fetch(alignment_file, source, feature.reference,
                         Max(0, region_start(feature)), region_end(feature)) IN
    IF fetched.exc # "none" THEN Raises(fetched.exc)
    ELSE LET aligned_segments ==
                 filter_aligned_segments(fetched.val, include_flags, exclude_flags, quality)
             tree == LocalTree(previous)
         IN IF bin_groups # <<>>
            THEN LET r == ScoreCutGroups([exc |-> "none", row |-> <<>>, tree |-> tree],
                              bin_groups, aligned_segments, feature, cut_point_offset)
                 IN IF r.exc # "none" THEN Raises(r.exc)
                    ELSE Returns(<<feature, TabJoined(r.row), r.tree>>)
            ELSE LET counts == count_cut_points(aligned_segments, region_start(feature),
                                   region_end(feature), cut_point_offset)
                     row == IF is_reverse(feature) THEN Reversed(counts) ELSE counts
                 IN Returns(<<feature, TabJoined(row),
                              add_cut_points_to_region_tree(tree, AllKey, "Both", row)>>)

----------------------------------------------------------------------------
(***************************************************************************)
(* metrics/mid.py                                                          *)
(***************************************************************************)

\* The midpoint with half the template length rounded towards zero.
find_midpoint_truncating(aligned_segment) ==
    IF aligned_segment.is_reverse
    THEN aligned_segment.reference_end - (Abs(aligned_segment.isize) \div 2)
    ELSE aligned_segment.reference_start + (aligned_segment.isize \div 2)

find_midpoint(aligned_segment) ==
    IF aligned_segment.is_reverse
    THEN aligned_segment.reference_end + (aligned_segment.isize \div 2)
    ELSE aligned_segment.reference_start + (aligned_segment.isize \div 2)

\* The midpoints in the region of all the reads, mates included.
MidpointsOfEveryRead(aligned_segments, reads_seen, feature) ==
    LET counted == SelectSeq2(aligned_segments,
                       {a \in Elements(aligned_segments) :
                           /\ region_start(feature) <= find_midpoint(a)
                           /\ find_midpoint(a) < region_end(feature)})
    IN [k \in 1..Len(counted) |-> find_midpoint(counted[k])]

\* Lines 79-90: the midpoints in the region, of the first read of each query name.
RECURSIVE MidpointsInRegion(_, _, _)
MidpointsInRegion(aligned_segments, reads_seen, feature) ==
    IF aligned_segments = <<>> THEN <<>>
    ELSE LET segment == Head(aligned_segments) IN
         IF segment.qname \in reads_seen
         THEN MidpointsInRegion(Tail(aligned_segments), reads_seen, feature)
         ELSE LET midpoint == find_midpoint(segment)
                  others == MidpointsInRegion(Tail(aligned_segments),
                                reads_seen \cup {segment.qname}, feature)
              IN IF region_start(feature) <= midpoint /\ midpoint < region_end(feature)
                 THEN <<midpoint>> \o others
                 ELSE others

count_midpoints(aligned_segments, feature) ==
    LET midpoints_in_region == MidpointsInRegion(aligned_segments, {}, feature)
        midpoint_counts ==
            [i \in 1..Max(0, region_end(feature) - region_start(feature)) |->
                Cardinality({k \in 1..Len(midpoints_in_region) :
                    midpoints_in_region[k] = region_start(feature) + i - 1})]
    IN IF is_reverse(feature) THEN Reversed(midpoint_counts) ELSE midpoint_counts

\* Lines 137-142: one positive count into the two-level dictionaries.
MidTreeAdd(region_tree, position, group_key, count) ==
    LET t1 == IF position \in DOMAIN region_tree
              THEN region_tree ELSE region_tree @@ (position :> EmptyDict)
        g1 == IF group_key \in DOMAIN t1[position]
              THEN [t1[position] EXCEPT ![group_key] = @ + count]
              ELSE t1[position] @@ (group_key :> count)
    IN [t1 EXCEPT ![position] = g1]

RECURSIVE AddMidpointsLoop(_, _, _, _)
AddMidpointsLoop(region_tree, group_key, midpoints, i) ==
    IF i > Len(midpoints) THEN region_tree
    ELSE LET position == (0 - (Len(midpoints) \div 2)) + (i - 1)
             count == midpoints[i] IN
         AddMidpointsLoop(
             IF count > 0 THEN MidTreeAdd(region_tree, position, group_key, count)
             ELSE region_tree,
             group_key, midpoints, i + 1)

add_midpoints_to_region_tree(region_tree, group_key, midpoints) ==
    AddMidpointsLoop(region_tree, group_key, midpoints, 1)

\* Lines 202-212: one bin of a group. st is (group_rows, tree).
ScoreMidBin(st, bin, group_key, aligned_segments, feature) ==
    LET minimum_length == bin[1]
        maximum_length == bin[2]
        resolution == bin[3]
        aligned_segments_in_bin ==
            SelectSeq2(aligned_segments,
                {a \in Elements(aligned_segments) :
                    minimum_length <= Abs(a.isize) /\ Abs(a.isize) <= maximum_length})
        midpoint_counts == count_midpoints(aligned_segments_in_bin, feature)
    IN [group_rows |-> Append(st.group_rows, reduce_scores(midpoint_counts, resolution)),
        tree |-> add_midpoints_to_region_tree(st.tree, group_key, midpoint_counts)]

RECURSIVE ScoreMidBins(_, _, _, _, _)
ScoreMidBins(st, bins, group_key, aligned_segments, feature) ==
    IF bins = <<>> THEN st
    ELSE ScoreMidBins(ScoreMidBin(st, Head(bins), group_key, aligned_segments, feature),
                      Tail(bins), group_key, aligned_segments, feature)

\* Lines 199-217: the groups in order. st is (exc, row, tree).
RECURSIVE ScoreMidGroups(_, _, _, _)
ScoreMidGroups(st, bin_groups, aligned_segments, feature) ==
    IF bin_groups = <<>> \/ st.exc # "none" THEN st
    ELSE LET group == Head(bin_groups)
             g == ScoreMidBins([group_rows |-> <<>>, tree |-> st.tree], group,
                      make_bin_group_key(group), aligned_segments, feature)
         IN ScoreMidGroups(
                IF Len(group) = 1
                THEN [exc |-> "none", row |-> st.row \o g.group_rows[1], tree |-> g.tree]
                ELSE IF g.group_rows = <<>>
                THEN [exc |-> "TypeError", row |-> st.row, tree |-> g.tree]
                ELSE [exc |-> "none",
                      row |-> st.row \o ReduceAddLists(Head(g.group_rows), Tail(g.group_rows)),
                      tree |-> g.tree],
                Tail(bin_groups), aligned_segments, feature)

\* The least of the numbers.
MinOfSeq(s) == CHOOSE m \in Elements(s) : \A x \in Elements(s) : m <= x

\* max(...) of a list of numbers, which is not empty.
RECURSIVE MaxOfSeq(_)
MaxOfSeq(s) == IF Len(s) = 1 THEN s[1] ELSE Max(s[1], MaxOfSeq(Tail(s)))

\* score_feature_with_midpoints, with the module's alignment_file and the
\* source it reads as explicit arguments. max() of no bins is a ValueError.
score_feature_with_midpoints(alignment_file, source, previous, bin_groups, include_flags, exclude_flags, quality, feature) ==
    LET bins == Flatten(bin_groups) IN
    IF bins = <<>> THEN Raises("ValueError")
    ELSE LET alignment_search_region_extension ==
                 MaxOfSeq([i \in 1..Len(bins) |-> bins[i][2]]) \div 2
             fetched == fetch(alignment_file, source, feature.reference,
                              Max(0, region_start(feature) - alignment_search_region_extension),
                              region_end(feature) + alignment_search_region_extension)
         IN IF fetched.exc # "none" THEN Raises(fetched.exc)
            ELSE LET aligned_segments == filter_aligned_segments(fetched.val, include_flags,
                                             exclude_flags, quality)
                     r == ScoreMidGroups([exc |-> "none", row |-> <<>>,
                                          tree |-> LocalTree(previous)],
                              bin_groups, aligned_segments, feature)
                 IN IF r.exc # "none" THEN Raises(r.exc)
                    ELSE Returns(<<feature, TabJoined(r.row), r.tree>>)

----------------------------------------------------------------------------
(***************************************************************************)
(* The bin strings the parser is applied to.                               *)
(***************************************************************************)

T_10_19 == <<"1", "0", "-", "1", "9">>
T_10_20 == <<"1", "0", "-", "2", "0">>
T_20_30 == <<"2", "0", "-", "3", "0">>
T_20_10 == <<"2", "0", "-", "1", "0">>
T_0_9   == <<"0", "-", "9">>
T_x     == <<"x">>

Tokens ==
    {IntToken(n) : n \in {-1, 0, 1}}
    \cup {SymbolToken(t) : t \in {T_10_19, T_10_20, T_20_30, T_20_10, T_0_9, T_x}}

SeqsUpTo(S, n) == UNION {[1..k -> S] : k \in 0..n}

RECURSIVE TokenCount(_)
TokenCount(groups) ==
    IF groups = <<>> THEN 0 ELSE Len(Head(groups)) + TokenCount(Tail(groups))

\* Split a token sequence into groups at the given cut points.
RECURSIVE GroupsOf(_, _)
GroupsOf(tokens, lens) ==
    IF lens = <<>> THEN <<>>
    ELSE <<SubSeq(tokens, 1, Head(lens))>>
         \o GroupsOf(SubSeq(tokens, Head(lens) + 1, Len(tokens)), Tail(lens))

\* The ways to cut n tokens into at most MaxGroups groups (the groups' lengths).
GroupLengths(n) ==
    {lens \in SeqsUpTo(0..n, MaxGroups) : SumSeq(lens) = n}

NotParsed == [status |-> "none", groups |-> <<>>, backward |-> {},
              error |-> OtherError("none", 0, 0)]

\* The pool is not started in the runs of the parser.
PoolIdle ==
    /\ mode = "cut"
    /\ features = <<>>
    /\ parallel = 1
    /\ openable = TRUE
    /\ coord = "start"
    /\ procs = <<>>
    /\ spawned = 0
    /\ handles = <<>>
    /\ fetches = {}
    /\ dispatched = 0
    /\ imap = [index |-> 1, items |-> <<>>, unsorted |-> <<>>]
    /\ finished = <<>>
    /\ chunk_items = <<>>
    /\ received = <<>>
    /\ error = "none"
    /\ aggregate_tree = <<>>
    /\ interrupted = FALSE

InitBins ==
    /\ PoolIdle
    /\ CalcIdle
    /\ \E tokens \in SeqsUpTo(Tokens, MaxTokens) :
          \E lens \in GroupLengths(Len(tokens)) :
              bins_string = GroupsOf(tokens, lens)
    /\ parse_state = "idle"
    /\ parsed = NotParsed

ParseBinsReturns ==
    /\ parse_state = "idle"
    /\ parse_bins(bins_string).status = "ok"
    /\ parsed' = parse_bins(bins_string)
    /\ parse_state' = "returned"
    /\ UNCHANGED bins_string
    /\ UNCHANGED <<poolVars, calcVars>>

ParseBinsRaises ==
    /\ parse_state = "idle"
    /\ parse_bins(bins_string).status = "error"
    /\ parsed' = parse_bins(bins_string)
    /\ parse_state' = "raised"
    /\ UNCHANGED bins_string
    /\ UNCHANGED <<poolVars, calcVars>>

NextBins == ParseBinsReturns \/ ParseBinsRaises

SpecBins == InitBins /\ [][NextBins]_vars

----------------------------------------------------------------------------
(***************************************************************************)
(* The run the pool is checked on: one alignment source and the scoring    *)
(* arguments of the command line.                                          *)
(***************************************************************************)

Read(qname, start, end, reverse, isize, flag, mapq) ==
    [qname |-> qname, reference_start |-> start, reference_end |-> end,
     is_reverse |-> reverse, isize |-> isize, flag |-> flag, mapping_quality |-> mapq]

\* An indexed BAM file with reads on chr1, in coordinate order.
AlignmentSource ==
    [references |-> {"chr1"},
     reads |-> << Read("a", 6, 16, FALSE, 30, 99, 60),
                  Read("b", 17, 27, FALSE, 40, 163, 60),
                  Read("a", 26, 36, TRUE, -30, 147, 60),
                  Read("c", 35, 45, FALSE, 50, 99, 60),
                  Read("b", 47, 57, TRUE, -40, 83, 60),
                  Read("d", 55, 65, TRUE, -50, 83, 10) >>]

PoolBinGroups == << << Bin(1, 100, 1) >> >>
PoolIncludeFlags == {83, 99, 147, 163}
PoolExcludeFlags == {4, 8}
PoolQuality == 30

\* The i-th feature of a run: two bases around 10 * i, extended by two bases,
\* on alternating strands; a feature of Unknown names a reference the
\* alignment source does not hold.
PoolFeature(i, unknown) ==
    [reference |-> IF i \in unknown THEN "chrUn" ELSE "chr1",
     feature_start |-> 10 * i - 1, feature_end |-> 10 * i + 1,
     strand |-> IF i % 2 = 0 THEN "-" ELSE "+", extension |-> 2]

----------------------------------------------------------------------------
(***************************************************************************)
(* score_features_with_cut_points / score_features_with_midpoints and the   *)
(* multiprocessing.Pool they start.                                        *)
(***************************************************************************)

InheritedHandle(h) == [id |-> 1]
\* cut.py 226: the module's alignment_file after the initializer opened handle h.
OpenedHandle(h) == [id |-> h]

\* mid.py 237-244: functools.partial binds five arguments and the pool calls
\* it with the feature; score_feature_with_midpoints takes five parameters.
MidpointParameters == 5

partial_scoring_function(m, alignment_file, source, previous, feature) ==
    IF m = "cut"
    THEN score_feature_with_cut_points(alignment_file, source, previous, PoolBinGroups,
             PoolIncludeFlags, PoolExcludeFlags, PoolQuality, DEFAULT_CUT_POINT_OFFSET, feature)
    ELSE LET args == <<PoolBinGroups, PoolIncludeFlags, PoolExcludeFlags, PoolQuality,
                       DEFAULT_CUT_POINT_OFFSET, feature>> IN
         IF Len(args) # MidpointParameters THEN Raises("TypeError")
         ELSE score_feature_with_midpoints(alignment_file, source, previous,
                  args[1], args[2], args[3], args[4], args[5])

\* The features a run can hold, and what the partial function gives for each
\* of them on an open handle in a process that built no tree before.
PoolFeatures == {PoolFeature(i, unknown) : i \in 1..MaxFeatures, unknown \in {{}, 1..MaxFeatures}}

\* partial_scoring_function on the run's alignment source. The scorers read the
\* handle only to fetch and the previous tree only through LocalTree, so the
\* table answers for every open handle and every tree LocalTree replaces.
Scored(m, alignment_file, previous, feature) ==
    partial_scoring_function(m, alignment_file, AlignmentSource, previous, feature)

\* Whether a call of the partial function runs the scorer's body (its fetch).
BodyRuns(m) == m = "cut" \/ MidpointParameters = 6

\* pool.imap(partial_scoring_function, features, parallel): the features are
\* cut into chunks of `parallel`, one task each.
NumChunks == (Len(features) + parallel - 1) \div parallel
Chunk(c) == SubSeq(features, (c - 1) * parallel + 1, Min(c * parallel, Len(features)))

\* What a worker reports for a task: the list of its features' results, or the
\* exception the first failing feature raised.
TaskSucceeded(results) == [success |-> TRUE, value |-> results, exc |-> "none"]
TaskDropsFailure(results, exc) == [success |-> TRUE, value |-> results, exc |-> "none"]
TaskFailed(results, exc) == [success |-> FALSE, value |-> <<>>, exc |-> exc]

\* IMapUnorderedIterator._set: results are appended as they arrive.
imap_unordered_set(cache, i, obj) ==
    [cache EXCEPT !.index = @ + 1, !.items = Append(@, obj)]

\* IMapIterator._set: a result for the expected index is appended, with any
\* results waiting behind it; a result for a later index waits.
RECURSIVE Drain(_)
Drain(cache) ==
    IF cache.index \in DOMAIN cache.unsorted
    THEN Drain([index |-> cache.index + 1,
                items |-> Append(cache.items, cache.unsorted[cache.index]),
                unsorted |-> [k \in DOMAIN cache.unsorted \ {cache.index} |-> cache.unsorted[k]]])
    ELSE cache

imap_set(cache, i, obj) ==
    IF cache.index = i
    THEN Drain([index |-> i + 1, items |-> Append(cache.items, obj), unsorted |-> cache.unsorted])
    ELSE [cache EXCEPT !.unsorted = @ @@ (i :> obj)]

KeepSigintPolicy(inherited) == inherited
\* cut.py 221: the SIGINT disposition of a worker after signal.signal().
InstallSigintPolicy(inherited) == "SIG_IGN"

Procs == 1..(MaxParallel + MaxRespawns)

Live == {"started", "initializing", "ready", "scoring"}

NewProc == [state |-> "unstarted", sigint |-> "exit_forcefully", alignment_file |-> None,
            task |-> 0, pos |-> 0, results |-> <<>>, tree |-> EmptyDict]

\* The coordinator's merge of a partial tree into its aggregate tree: the
\* counts of the partial tree are added key by key.
RECURSIVE MergeStrands(_, _, _, _, _)
MergeStrands(tree, position, group_key, strands, todo) ==
    IF todo = {} THEN tree
    ELSE LET strand == CHOOSE x \in todo : TRUE IN
         MergeStrands(TreeAdd(tree, position, group_key, strand, strands[strand]),
                      position, group_key, strands, todo \ {strand})

RECURSIVE MergeGroups(_, _, _, _)
MergeGroups(tree, position, groups, todo) ==
    IF todo = {} THEN tree
    ELSE LET group_key == CHOOSE x \in todo : TRUE IN
         MergeGroups(MergeStrands(tree, position, group_key, groups[group_key],
                                  DOMAIN groups[group_key]),
                     position, groups, todo \ {group_key})

RECURSIVE MergePositions(_, _, _)
MergePositions(tree, partial, todo) ==
    IF todo = {} THEN tree
    ELSE LET position == CHOOSE x \in todo : TRUE IN
         MergePositions(MergeGroups(tree, position, partial[position], DOMAIN partial[position]),
                        partial, todo \ {position})

MergeTree(tree, partial) == MergePositions(tree, partial, DOMAIN partial)

InitPool ==
    /\ mode \in {"cut", "mid"}
    /\ \E n \in 0..MaxFeatures : \E unknown \in SUBSET (1..n) :
           features = [i \in 1..n |-> PoolFeature(i, unknown)]
    /\ parallel \in 1..MaxParallel
    /\ openable \in BOOLEAN
    /\ coord = "start"
    /\ procs = [p \in Procs |-> NewProc]
    /\ spawned = 0
    /\ handles = <<>>
    /\ fetches = {}
    /\ dispatched = 0
    /\ imap = [index |-> 1, items |-> <<>>, unsorted |-> <<>>]
    /\ finished = <<>>
    /\ chunk_items = <<>>
    /\ received = <<>>
    /\ error = "none"
    /\ aggregate_tree = EmptyDict
    /\ interrupted = FALSE

\* score_features_with_*: the partial function, the Pool with its `parallel`
\* worker processes started, and the imap over the features.
StartPool ==
    /\ coord = "start"
    /\ coord' = "iterating"
    /\ procs' = [p \in Procs |-> IF p <= parallel THEN [procs[p] EXCEPT !.state = "started"]
                                 ELSE procs[p]]
    /\ spawned' = parallel
    /\ UNCHANGED <<binVars, calcVars, inputVars, handles, fetches, dispatched, imap, finished, chunk_items,
                   received, error, aggregate_tree, interrupted>>

\* The pool replaces a worker process that exited.
Respawn ==
    /\ coord = "iterating"
    /\ spawned < parallel + MaxRespawns
    /\ Cardinality({p \in Procs : procs[p].state \in Live}) < parallel
    /\ procs' = [procs EXCEPT ![spawned + 1].state = "started"]
    /\ spawned' = spawned + 1
    /\ UNCHANGED <<binVars, calcVars, inputVars, coord, handles, fetches, dispatched, imap, finished,
                   chunk_items, received, error, aggregate_tree, interrupted>>

\* scoring_process_init, line 221: the worker ignores SIGINT from here on.
InitBegin(p) ==
    /\ procs[p].state = "started"
    /\ procs' = [procs EXCEPT ![p].state = "initializing",
                              ![p].sigint = InstallSigintPolicy(procs[p].sigint)]
    /\ UNCHANGED <<binVars, calcVars, inputVars, coord, spawned, handles, fetches, dispatched, imap, finished,
                   chunk_items, received, error, aggregate_tree, interrupted>>

\* scoring_process_init, lines 223-226: the worker opens its own handle.
InitOpen(p) ==
    /\ procs[p].state = "initializing"
    /\ openable
    /\ handles' = Append(handles, p)
    /\ procs' = [procs EXCEPT ![p].state = "ready",
                              ![p].alignment_file = OpenedHandle(Len(handles) + 1)]
    /\ UNCHANGED <<binVars, calcVars, inputVars, coord, spawned, fetches, dispatched, imap, finished,
                   chunk_items, received, error, aggregate_tree, interrupted>>

\* open_alignment_file raises in the initializer: the worker process exits.
InitOpenFails(p) ==
    /\ procs[p].state = "initializing"
    /\ ~openable
    /\ procs' = [procs EXCEPT ![p].state = "dead"]
    /\ UNCHANGED <<binVars, calcVars, inputVars, coord, spawned, handles, fetches, dispatched, imap, finished,
                   chunk_items, received, error, aggregate_tree, interrupted>>

\* A ready worker takes the next chunk from the task queue.
TakeTask(p) ==
    /\ procs[p].state = "ready"
    /\ dispatched < NumChunks
    /\ dispatched' = dispatched + 1
    /\ procs' = [procs EXCEPT ![p].state = "scoring", ![p].task = dispatched + 1,
                              ![p].pos = 1, ![p].results = <<>>]
    /\ UNCHANGED <<binVars, calcVars, inputVars, coord, spawned, handles, fetches, imap, finished,
                   chunk_items, received, error, aggregate_tree, interrupted>>

\* The worker scores the next feature of its chunk; after the last one, or at
\* the first exception, it reports the task's result.
ScoreNext(p) ==
    /\ procs[p].state = "scoring"
    /\ LET chunk == Chunk(procs[p].task)
           r == Scored(mode, procs[p].alignment_file, procs[p].tree, chunk[procs[p].pos])
           results == Append(procs[p].results, r.val)
           report(obj) ==
               /\ imap' = imap_set(imap, procs[p].task, obj)
               /\ finished' = Append(finished, procs[p].task)
       IN /\ fetches' = IF BodyRuns(mode)
                        THEN fetches \cup {<<p, procs[p].alignment_file.id>>}
                        ELSE fetches
          /\ IF r.exc # "none"
             THEN /\ report(TaskFailed(procs[p].results, r.exc))
                  /\ procs' = [procs EXCEPT ![p].state = "ready", ![p].task = 0,
                                            ![p].pos = 0, ![p].results = <<>>]
             ELSE IF procs[p].pos = Len(chunk)
             THEN /\ report(TaskSucceeded(results))
                  /\ procs' = [procs EXCEPT ![p].state = "ready", ![p].task = 0,
                                            ![p].pos = 0, ![p].results = <<>>,
                                            ![p].tree = r.val[3]]
             ELSE /\ procs' = [procs EXCEPT ![p].pos = @ + 1, ![p].results = results,
                                            ![p].tree = r.val[3]]
                  /\ UNCHANGED <<imap, finished>>
    /\ UNCHANGED <<binVars, calcVars, inputVars, coord, spawned, handles, dispatched, chunk_items, received,
                   error, aggregate_tree, interrupted>>

\* The coordinator takes the next result and merges its partial tree.
Deliver(result, rest) ==
    /\ received' = Append(received, result)
    /\ aggregate_tree' = MergeTree(aggregate_tree, result[3])
    /\ chunk_items' = rest

\* next() on the iterator: the next result of the chunk being yielded.
ReceiveResult ==
    /\ coord = "iterating"
    /\ chunk_items # <<>>
    /\ Deliver(Head(chunk_items), Tail(chunk_items))
    /\ UNCHANGED <<binVars, calcVars, inputVars, coord, procs, spawned, handles, fetches, dispatched, imap,
                   finished, error, interrupted>>

\* next() on the iterator: the first result of the next chunk, in index order
\* (a chunk that holds no result yields none).
ReceiveChunk ==
    /\ coord = "iterating"
    /\ chunk_items = <<>>
    /\ imap.items # <<>>
    /\ Head(imap.items).success
    /\ IF Head(imap.items).value # <<>>
       THEN Deliver(Head(Head(imap.items).value), Tail(Head(imap.items).value))
       ELSE UNCHANGED <<received, aggregate_tree, chunk_items>>
    /\ imap' = [imap EXCEPT !.items = Tail(@)]
    /\ UNCHANGED <<binVars, calcVars, inputVars, coord, procs, spawned, handles, fetches, dispatched,
                   finished, error, interrupted>>

\* next() on the iterator raises the exception of the next chunk.
ReceiveFailure ==
    /\ coord = "iterating"
    /\ chunk_items = <<>>
    /\ imap.items # <<>>
    /\ ~Head(imap.items).success
    /\ coord' = "failed"
    /\ error' = Head(imap.items).exc
    /\ imap' = [imap EXCEPT !.items = Tail(@)]
    /\ UNCHANGED <<binVars, calcVars, inputVars, procs, spawned, handles, fetches, dispatched, finished,
                   chunk_items, received, aggregate_tree, interrupted>>

\* next() on the iterator after the last chunk.
StopIteration ==
    /\ coord = "iterating"
    /\ chunk_items = <<>>
    /\ imap.items = <<>>
    /\ imap.index = NumChunks + 1
    /\ coord' = "done"
    /\ UNCHANGED <<binVars, calcVars, inputVars, procs, spawned, handles, fetches, dispatched, imap, finished,
                   chunk_items, received, error, aggregate_tree, interrupted>>

\* The worker's reaction to SIGINT: none under SIG_IGN; under the handler it
\* inherited from the coordinator (exit_forcefully) the process kills itself.
OnSigint(proc) ==
    IF proc.state \in Live /\ proc.sigint # "SIG_IGN"
    THEN [proc EXCEPT !.state = "dead"]
    ELSE proc

\* An interrupt from the terminal: SIGINT reaches the coordinator and every
\* worker process. The coordinator runs exit_forcefully and ends by SIGTERM.
Sigint ==
    /\ coord \in {"start", "iterating"}
    /\ ~interrupted
    /\ interrupted' = TRUE
    /\ coord' = "killed"
    /\ procs' = [p \in Procs |-> OnSigint(procs[p])]
    /\ UNCHANGED <<binVars, calcVars, inputVars, spawned, handles, fetches, dispatched, imap, finished,
                   chunk_items, received, error, aggregate_tree>>

\* The coordinator is gone: the worker processes of its pool end.
Teardown ==
    /\ coord \in {"done", "failed", "killed"}
    /\ \E p \in Procs : procs[p].state \in Live
    /\ procs' = [p \in Procs |-> IF procs[p].state \in Live
                                 THEN [procs[p] EXCEPT !.state = "closed"]
                                 ELSE procs[p]]
    /\ UNCHANGED <<binVars, calcVars, inputVars, coord, spawned, handles, fetches, dispatched, imap,
                   finished, chunk_items, received, error, aggregate_tree, interrupted>>

Init ==
    /\ InitPool
    /\ CalcIdle
    /\ bins_string = <<>>
    /\ parse_state = "idle"
    /\ parsed = NotParsed

Next ==
    \/ StartPool
    \/ Respawn
    \/ \E p \in Procs : InitBegin(p)
    \/ \E p \in Procs : InitOpen(p)
    \/ \E p \in Procs : InitOpenFails(p)
    \/ \E p \in Procs : TakeTask(p)
    \/ \E p \in Procs : ScoreNext(p)
    \/ ReceiveResult
    \/ ReceiveChunk
    \/ ReceiveFailure
    \/ StopIteration
    \/ Sigint
    \/ Teardown

Spec == Init /\ [][Next]_vars

----------------------------------------------------------------------------
(***************************************************************************)
(* Properties of the pool.                                                 *)
(***************************************************************************)

\* What scoring the i-th feature of the run gives: the partial function on an
\* open handle, in a process that built no tree before.
Expected(i) ==
    partial_scoring_function(mode, [id |-> 1], AlignmentSource, <<>>, features[i])

OutOfOrder(s) == \E i, j \in 1..Len(s) : i < j /\ s[i] > s[j]

\* What the scorer of the run's mode gives for its i-th feature, called as its
\* signature says, in a process whose module holds the tree `previous`.
Result(i, previous) ==
    IF mode = "cut"
    THEN score_feature_with_cut_points([id |-> 1], AlignmentSource, previous, PoolBinGroups,
             PoolIncludeFlags, PoolExcludeFlags, PoolQuality, DEFAULT_CUT_POINT_OFFSET,
             features[i])
    ELSE score_feature_with_midpoints([id |-> 1], AlignmentSource, previous, PoolBinGroups,
             PoolIncludeFlags, PoolExcludeFlags, PoolQuality, features[i])

\* C1. Ordered parallel dispatch, for score_features_with_cut_points and
\* score_features_with_midpoints: whatever the number of workers and the order
\* in which they finish, the results the coordinator has received are the
\* results of the first features of the input, in input order; when every
\* feature of the input can be scored the iteration does not fail, and when it
\* ends the coordinator has the results of all features.
C1_OrderedDispatch ==
    /\ Len(received) <= Len(features)
    /\ \A i \in 1..Len(received) :
           Result(i, <<>>).exc = "none" /\ received[i] = Result(i, <<>>).val
    /\ (\A i \in 1..Len(features) : Result(i, <<>>).exc = "none") => coord # "failed"
    /\ coord = "done" => Len(received) = Len(features)

\* The part of C1 that the pool decides: the coordinator receives what the
\* partial function gives for the first features of the input, in input
\* order, and for all features when the iteration ends normally.
C1_DeliveredInOrder ==
    /\ Len(received) <= Len(features)
    /\ \A i \in 1..Len(received) :
           Expected(i).exc = "none" /\ received[i] = Expected(i).val
    /\ coord = "done" => Len(received) = Len(features)

\* Two workers finished their chunks out of submission order and the
\* coordinator received the results of all features.
C1_Witness ==
    /\ coord = "done"
    /\ Len(received) >= 3
    /\ OutOfOrder(finished)

HandlesOf(p) == {h \in 1..Len(handles) : handles[h] = p}

\* C2. Every scoring call of a worker fetches from the handle this worker
\* opened in its initializer: no worker scores while its handle is unset, a
\* worker opens one handle and uses it for all its features, and no handle is
\* used by two workers.
C2_OwnHandle ==
    /\ \A f \in fetches : f[2] \in 1..Len(handles) /\ handles[f[2]] = f[1]
    /\ \A f1, f2 \in fetches : (f1[1] = f2[1]) <=> (f1[2] = f2[2])
    /\ \A p \in Procs :
           /\ Cardinality(HandlesOf(p)) <= 1
           /\ procs[p].state \in {"ready", "scoring"} =>
                  /\ procs[p].alignment_file # None
                  /\ HandlesOf(p) = {procs[p].alignment_file.id}
           /\ procs[p].state \in {"unstarted", "started", "initializing"} =>
                  /\ procs[p].alignment_file = None
                  /\ procs[p].task = 0

\* Two workers have each scored features, one of them is about to score the
\* second feature of a chunk with the handle it used for the first.
C2_Witness ==
    /\ Cardinality({f[1] : f \in fetches}) = 2
    /\ \E p \in Procs :
           /\ procs[p].state = "scoring"
           /\ procs[p].pos = 2
           /\ <<p, procs[p].alignment_file.id>> \in fetches

\* C3. If the alignment source cannot be opened, the error reaches the caller
\* before the pool is started: no worker process is started, no feature is
\* dispatched and the coordinator does not go on to wait for results.
C3_OpenErrorBeforePool ==
    ~openable =>
        /\ spawned = 0
        /\ dispatched = 0
        /\ coord \in {"start", "failed", "killed"}

FirstFailure == CHOOSE i \in 1..Len(features) :
                    /\ Expected(i).exc # "none"
                    /\ \A j \in 1..(i - 1) : Expected(j).exc = "none"

ChunkOf(i) == (i + parallel - 1) \div parallel

\* C4. A scoring failure for feature i reaches the coordinator and ends the
\* run: the coordinator never receives a row for feature i or a later one, the
\* rows it has form a prefix of the input with one row per feature, and the
\* iteration ends with the exception of the first failing feature, never
\* normally.
C4_FailurePropagates ==
    /\ \A k \in 1..Len(received) :
           /\ k <= Len(features)
           /\ received[k][1] = features[k]
           /\ Expected(k).exc = "none"
    /\ coord = "done" => \A i \in 1..Len(features) : Expected(i).exc = "none"
    /\ coord = "failed" =>
           /\ \E i \in 1..Len(features) : Expected(i).exc # "none"
           /\ error = Expected(FirstFailure).exc
           /\ Len(received) = (ChunkOf(FirstFailure) - 1) * parallel

\* The iteration ended with the failure of a feature while the rows of a later
\* chunk were ready, and rows of earlier features had been delivered.
C4_Witness ==
    /\ coord = "failed"
    /\ Len(received) >= 1
    /\ \E k \in 1..Len(imap.items) : imap.items[k].success

\* C5. SIGINT does not change a worker whose initializer has begun, whatever
\* it is doing (opening its handle, waiting for a task, scoring a chunk); the
\* coordinator is the one that ends.
C5_WorkersIgnoreSigint ==
    [][(~interrupted /\ interrupted') =>
           /\ coord' = "killed"
           /\ \A p \in Procs :
                  procs[p].state \in {"initializing", "ready", "scoring"} =>
                      procs'[p] = procs[p]]_vars

\* SIGINT was sent while a worker was in the middle of a chunk; the worker is
\* still there, about to score the chunk's second feature.
C5_Witness ==
    /\ interrupted
    /\ coord = "killed"
    /\ \E p \in Procs : procs[p].state = "scoring" /\ procs[p].pos = 2

RECURSIVE MergeAll(_, _)
MergeAll(tree, results) ==
    IF results = <<>> THEN tree
    ELSE MergeAll(MergeTree(tree, Head(results)[3]), Tail(results))

\* The scorers are functions of the run's inputs: whatever tree the process
\* built before (here the tree of the first feature), the call gives the tree
\* it gives from an empty one. Checked once per run, before the pool starts.
C6_FreshTreePerCall ==
    coord = "start" =>
        \A i \in 1..Len(features) :
            Result(1, <<>>).exc = "none" =>
                Result(i, Result(1, <<>>).val[3]) = Result(i, <<>>)

C6_TreesAreLocal ==
    /\ \A k \in 1..Len(received) : received[k][3] = Expected(k).val[3]
    /\ aggregate_tree = MergeAll(<<>>, received)
    /\ C6_FreshTreePerCall

C6_MergeStep ==
    aggregate_tree' # aggregate_tree =>
        /\ Len(received') = Len(received) + 1
        /\ aggregate_tree' = MergeTree(aggregate_tree, received'[Len(received')][3])
        /\ procs' = procs

\* C6. The aggregate tree is never mutated concurrently: the partial tree of
\* every scoring call, of cut points or of midpoints, is built from an empty
\* tree of its own (it holds the counts of its feature and nothing else,
\* whatever tree the process built before), and the coordinator's tree
\* changes only when the coordinator merges one received partial tree into it.
C6_NoConcurrentMutation == []C6_TreesAreLocal /\ [][C6_MergeStep]_vars

\* The coordinator merged the trees of two features that one worker scored one
\* after the other.
C6_Witness ==
    /\ Len(received) >= 2
    /\ aggregate_tree # <<>>
    /\ parallel = 1
    /\ received[1][3] # <<>> /\ received[2][3] # <<>>

----------------------------------------------------------------------------
(***************************************************************************)
(* Properties of parse_bins.  The ranges the tokens of the runs denote are *)
(* written down here, not parsed.                                          *)
(***************************************************************************)

RangeTexts == {T_10_19, T_10_20, T_20_30, T_20_10, T_0_9}

RangeOf(text) ==
    CASE text = T_10_19 -> <<10, 19>>
      [] text = T_10_20 -> <<10, 20>>
      [] text = T_20_30 -> <<20, 30>>
      [] text = T_20_10 -> <<20, 10>>
      [] text = T_0_9   -> <<0, 9>>

ResolutionToken(bin_group) == bin_group[Len(bin_group)]

\* The trailing resolution token is missing or is not a positive integer.
BadResolution(bin_group) ==
    \/ bin_group = <<>>
    \/ ResolutionToken(bin_group).kind # "int"
    \/ ResolutionToken(bin_group).val < 1

\* A group as the syntax wants it: range tokens, then a positive resolution.
WellFormedGroup(bin_group) ==
    /\ ~BadResolution(bin_group)
    /\ \A i \in 1..(Len(bin_group) - 1) :
           bin_group[i].kind = "Symbol" /\ bin_group[i].text \in RangeTexts

WellFormed(s) == \A g \in 1..Len(s) : WellFormedGroup(s[g])

\* The (group, bin) places of a well-formed configuration, and the lengths a
\* place covers.
Places(s) == {pl \in (1..Len(s)) \X (1..MaxTokens) : pl[2] < Len(s[pl[1]])}
Lo(s, pl) == Min(RangeOf(s[pl[1]][pl[2]].text)[1], RangeOf(s[pl[1]][pl[2]].text)[2])
Hi(s, pl) == Max(RangeOf(s[pl[1]][pl[2]].text)[1], RangeOf(s[pl[1]][pl[2]].text)[2])

\* Some bin starts inside another bin (or at its end).
SomeOverlap(s) ==
    \E pl, ql \in Places(s) :
        pl # ql /\ Lo(s, pl) <= Lo(s, ql) /\ Lo(s, ql) <= Hi(s, pl)

One == IntToken(1)
TouchingGroups == << <<SymbolToken(T_10_20), One>>, <<SymbolToken(T_20_30), One>> >>
TouchingBins   == << <<SymbolToken(T_10_20), SymbolToken(T_20_30), One>> >>
DisjointGroups == << <<SymbolToken(T_10_19), One>>, <<SymbolToken(T_20_30), One>> >>
DisjointBins   == << <<SymbolToken(T_10_19), SymbolToken(T_20_30), One>> >>

\* C7. parse_bins raises the configuration error whenever a bin of the
\* configuration starts at or before the end of another bin that does not
\* start after it (in the list of all bins sorted by (start, end): a start <=
\* the previous end), in the same group or in another: 10-20 with 20-30 is
\* rejected, 10-19 with 20-30 is returned.
C7_OverlapRaises ==
    parse_state # "idle" =>
        /\ WellFormed(bins_string) /\ SomeOverlap(bins_string) =>
               /\ parse_state = "raised"
               /\ parsed.error = ArgumentTypeError("overlap", 0, 0)
        /\ bins_string \in {TouchingGroups, TouchingBins} =>
               /\ parse_state = "raised"
               /\ parsed.error.type = "ArgumentTypeError"
        /\ bins_string = DisjointGroups =>
               /\ parse_state = "returned"
               /\ parsed.groups = << <<Bin(10, 19, 1)>>, <<Bin(20, 30, 1)>> >>
        /\ bins_string = DisjointBins =>
               /\ parse_state = "returned"
               /\ parsed.groups = << <<Bin(10, 19, 1), Bin(20, 30, 1)>> >>

\* 10-20 and 20-30 in two groups were rejected.
C7_Witness ==
    /\ bins_string = TouchingGroups
    /\ parse_state = "raised"

\* C8. When a group's trailing resolution token is missing (the group may have
\* no token at all) or is not a positive integer, and the groups before it are
\* well formed, parse_bins raises the configuration error that reports this
\* group's index, and nothing else.
C8_ResolutionErrorReported ==
    parse_state # "idle" =>
        \A g \in 1..Len(bins_string) :
            /\ \A h \in 1..(g - 1) : WellFormedGroup(bins_string[h])
            /\ BadResolution(bins_string[g])
            => /\ parse_state = "raised"
               /\ parsed.error = ArgumentTypeError("resolution", g - 1, 0)

\* C9. Every bin parse_bins returns has minimum_length <= maximum_length and
\* resolution >= 1, and is the range its token denotes with the bounds in
\* ascending order and the resolution of its group; a range written backward
\* is swapped and reported, and is not an error: the only error of a
\* well-formed configuration is an overlap.
C9_BinsAscending ==
    /\ parse_state = "returned" =>
           /\ \A g \in 1..Len(parsed.groups) : \A i \in 1..Len(parsed.groups[g]) :
                  /\ parsed.groups[g][i][1] <= parsed.groups[g][i][2]
                  /\ parsed.groups[g][i][3] >= 1
           /\ WellFormed(bins_string)
           /\ Len(parsed.groups) = Len(bins_string)
           /\ \A g \in 1..Len(bins_string) :
                  Len(parsed.groups[g]) = Len(bins_string[g]) - 1
           /\ \A pl \in Places(bins_string) :
                  parsed.groups[pl[1]][pl[2]] =
                      Bin(Lo(bins_string, pl), Hi(bins_string, pl),
                          ResolutionToken(bins_string[pl[1]]).val)
           /\ parsed.backward =
                  {<<pl[1] - 1, pl[2] - 1>> : pl \in
                      {ql \in Places(bins_string) :
                          RangeOf(bins_string[ql[1]][ql[2]].text)[1]
                              > RangeOf(bins_string[ql[1]][ql[2]].text)[2]}}
    /\ parse_state = "raised" /\ WellFormed(bins_string) =>
           parsed.error = ArgumentTypeError("overlap", 0, 0)

\* A configuration with a range written backward was returned.
C9_Witness ==
    /\ parse_state = "returned"
    /\ parsed.backward # {}
    /\ \E g \in 1..Len(bins_string) : \E i \in 1..Len(bins_string[g]) :
           bins_string[g][i] = SymbolToken(T_20_10)

\* C10. Every group parse_bins returns holds one or more bins.
C10_GroupsNotEmpty ==
    parse_state = "returned" =>
        \A g \in 1..Len(parsed.groups) : Len(parsed.groups[g]) >= 1

----------------------------------------------------------------------------
(***************************************************************************)
(* The score vector functions, called on bounded vectors.                  *)
(***************************************************************************)

Vectors == UNION {[1..n -> 0..MaxCount] : n \in 0..MaxLen}

\* Nothing of the other specifications runs.
OnlyVectors ==
    /\ PoolIdle
    /\ bins_string = <<>> /\ parse_state = "idle" /\ parsed = NotParsed
    /\ s_segments = <<>> /\ s_feature = <<>> /\ s_bin_groups = <<>> /\ s_flags = <<>>
    /\ s_offset = 0 /\ s_state = "idle" /\ s_result = <<>>
    /\ TreeIdle

InitVectors ==
    /\ OnlyVectors
    /\ v_scores \in Vectors
    /\ v_resolution \in 1..MaxResolution
    /\ v_extension \in 0..MaxExtension
    /\ v_state = "idle"
    /\ v_result = <<>>

ReduceScores ==
    /\ v_state = "idle"
    /\ v_result' = reduce_scores(v_scores, v_resolution)
    /\ v_state' = "reduce_scores"
    /\ UNCHANGED <<binVars, poolVars, scoreVars, treeVars, v_scores, v_resolution, v_extension>>

AggregateScores ==
    /\ v_state = "idle"
    /\ v_result' = aggregate_scores(v_scores, v_extension, v_resolution)
    /\ v_state' = "aggregate_scores"
    /\ UNCHANGED <<binVars, poolVars, scoreVars, treeVars, v_scores, v_resolution, v_extension>>

NextVectors == ReduceScores \/ AggregateScores

SpecVectors == InitVectors /\ [][NextVectors]_vars

\* The total of the counts at positions lo..hi of a vector.
RECURSIVE Total(_, _, _)
Total(v, lo, hi) == IF lo > hi THEN 0 ELSE v[lo] + Total(v, lo + 1, hi)

\* C11. reduce_scores(v, 1) is v, and for every resolution r >= 1 the result
\* has one count per r consecutive positions of v (the last may stand for
\* fewer), each the total of its positions, so that its total is that of v;
\* also when the length of v is no multiple of r and when v is empty.
C11_ReducePreservesTotal ==
    v_state = "reduce_scores" =>
        /\ v_resolution = 1 => v_result = v_scores
        /\ Len(v_result) = (Len(v_scores) + v_resolution - 1) \div v_resolution
        /\ \A i \in 1..Len(v_result) :
               v_result[i] = Total(v_scores, (i - 1) * v_resolution + 1,
                                   Min(i * v_resolution, Len(v_scores)))
        /\ Total(v_result, 1, Len(v_result)) = Total(v_scores, 1, Len(v_scores))

\* A vector whose length is no multiple of the resolution, with a count in its
\* last, short chunk, was reduced.
C11_Witness ==
    /\ v_state = "reduce_scores"
    /\ v_resolution > 1
    /\ Len(v_scores) > v_resolution
    /\ Len(v_scores) % v_resolution # 0
    /\ v_scores[Len(v_scores)] > 0

\* C12. aggregate_scores with extension 0 returns the scores unchanged, for
\* every vector and every resolution >= 1.
C12_ZeroExtensionIdentity ==
    v_state = "aggregate_scores" /\ v_extension = 0 => v_result = v_scores

----------------------------------------------------------------------------
(***************************************************************************)
(* metrics.py: score_feature. Its count_cut_points and                     *)
(* add_cut_points_to_region_tree are those of metrics/cut.py.              *)
(***************************************************************************)

\* Iterating a generator expression to its end: it yields the items of the
\* iterator it reads that satisfy its condition, and leaves that iterator
\* exhausted.
Exhaust(iterator, passing) == [items |-> SelectSeq2(iterator, passing), rest |-> <<>>]

\* Line 232: '_'.join('%s.%s' % (bin[0], bin[1]) for bin in group).
metrics_group_key(group) ==
    [name |-> "bins.", bins |-> [i \in 1..Len(group) |-> <<group[i][1], group[i][2]>>]]

\* Lines 233-252: one bin of a group. aligned_segments_in_bin is a generator
\* over the list of filtered reads; forward_aligned_segments and
\* reverse_aligned_segments are generators that both read it, the forward one
\* first (line 239), the reverse one after it (line 240).
MetricsScoreBin(st, bin, group_key, aligned_segments, feature, cut_point_offset) ==
    LET in_bin == {a \in Elements(aligned_segments) :
                      bin[1] <= Abs(a.isize) /\ Abs(a.isize) <= bin[2]}
        aligned_segments_in_bin == SelectSeq2(aligned_segments, in_bin)
        forward_aligned_segments ==
            Exhaust(aligned_segments_in_bin, {a \in in_bin : ~a.is_reverse})
        reverse_aligned_segments ==
            Exhaust(forward_aligned_segments.rest, {a \in in_bin : a.is_reverse})
        fwd == count_cut_points(forward_aligned_segments.items,
                   region_start(feature), region_end(feature), cut_point_offset)
        rev == count_cut_points(reverse_aligned_segments.items,
                   region_start(feature), region_end(feature), cut_point_offset)
        forward_cut_points == IF is_reverse(feature) THEN Reversed(rev) ELSE fwd
        reverse_cut_points == IF is_reverse(feature) THEN Reversed(fwd) ELSE rev
        bin_scores == aggregate_scores(forward_cut_points, feature.extension, bin[3])
                      \o aggregate_scores(reverse_cut_points, feature.extension, bin[3])
    IN [group_rows |-> Append(st.group_rows, bin_scores),
        tree |-> add_cut_points_to_region_tree(
                     add_cut_points_to_region_tree(st.tree, group_key, "F", forward_cut_points),
                     group_key, "R", reverse_cut_points)]

\* Lines 230-257: the groups in order, the bins of a group in order. st is
\* (exc, row, tree).
RECURSIVE MetricsScoreGroups(_, _, _, _, _, _)
MetricsScoreGroups(st, bin_groups, b, aligned_segments, feature, cut_point_offset) ==
    IF bin_groups = <<>> \/ st.exc # "none" THEN st
    ELSE LET group == Head(bin_groups) IN
         IF b <= Len(group)
         THEN LET scored == MetricsScoreBin([group_rows |-> st.group_rows, tree |-> st.tree],
                                group[b], metrics_group_key(group), aligned_segments, feature,
                                cut_point_offset)
              IN MetricsScoreGroups([st EXCEPT !.group_rows = scored.group_rows,
                                               !.tree = scored.tree],
                     bin_groups, b + 1, aligned_segments, feature, cut_point_offset)
         ELSE MetricsScoreGroups(
                  IF st.group_rows = <<>>
                  THEN [st EXCEPT !.exc = "TypeError"]
                  ELSE [st EXCEPT !.row = @ \o ReduceAddLists(Head(st.group_rows),
                                                              Tail(st.group_rows)),
                                  !.group_rows = <<>>],
                  Tail(bin_groups), 1, aligned_segments, feature, cut_point_offset)

\* score_feature, with the source the alignment file it opens reads.
score_feature(source, bin_groups, include_flags, exclude_flags, quality, feature, cut_point_offset) ==
    LET fetched == fetch([id |-> 1], source, feature.reference,
                         Max(0, region_start(feature)), region_end(feature)) IN
    IF fetched.exc # "none" THEN Raises(fetched.exc)
    ELSE LET aligned_segments ==
                 filter_aligned_segments(fetched.val, include_flags, exclude_flags, quality)
             r == MetricsScoreGroups([exc |-> "none", row |-> <<>>, tree |-> EmptyDict,
                                      group_rows |-> <<>>],
                      bin_groups, 1, aligned_segments, feature, cut_point_offset)
         IN IF r.exc # "none" THEN Raises(r.exc)
            ELSE Returns(<<TabJoined(r.row), r.tree>>)

----------------------------------------------------------------------------
(***************************************************************************)
(* The filter, the counters and the scorers, called on one feature and a   *)
(* bounded list of aligned segments.                                       *)
(***************************************************************************)

\* Reads around position 10 of chr1: the two mates of fragment a (6..14), the
\* two three-base mates of fragment b (7..14), a duplicate-flagged read, a read
\* with the unmapped bit and a read of low mapping quality.
CandidateReads ==
    { Read("a", 6, 12, FALSE, 8, 99, 60),
      Read("a", 8, 14, TRUE, -8, 147, 60),
      Read("b", 7, 10, FALSE, 7, 99, 60),
      Read("b", 11, 14, TRUE, -7, 147, 60),
      Read("c", 5, 11, FALSE, 6, 1123, 60),
      Read("d", 6, 12, FALSE, 9, 103, 60),
      Read("e", 6, 12, TRUE, -6, 83, 10) }

\* Lists of different candidate reads.
ReadLists ==
    {l \in SeqsUpTo(CandidateReads, MaxReads) :
        \A i, j \in 1..Len(l) : i # j => l[i] # l[j]}

\* pysam's fetch yields the reads of an indexed file in coordinate order.
CoordinateSorted(l) ==
    \A i, j \in 1..Len(l) : i < j => l[i].reference_start <= l[j].reference_start

ScoringFeature(start, strand, extension) ==
    [reference |-> "chr1", feature_start |-> start, feature_end |-> start + 4,
     strand |-> strand, extension |-> extension]

ScoringFeatures ==
    {ScoringFeature(start, strand, extension) :
        start \in {8, 9}, strand \in {"+", "-"}, extension \in 0..MaxExtension}

\* No bin groups (the bare mode), one bin at each resolution, two bins in a
\* group, two groups.
ScoringBinGroups ==
    { <<>>, << <<Bin(1, 6, 1), Bin(7, 100, 1)>> >>, << <<Bin(1, 6, 1)>>, <<Bin(7, 100, 2)>> >> }
    \cup { << <<Bin(1, 100, r)>> >> : r \in 1..MaxResolution }

Flags(include_flags, exclude_flags, quality) ==
    [include_flags |-> include_flags, exclude_flags |-> exclude_flags, quality |-> quality]

DefaultFlags == Flags(PoolIncludeFlags, PoolExcludeFlags, PoolQuality)

FlagChoices ==
    {Flags(i, e, q) : i \in {{}, {99}, PoolIncludeFlags}, e \in {{}, {12}, PoolExcludeFlags},
                      q \in {0, PoolQuality}}

\* The example of the documentation: the feature chr1:100-110 extended by 20
\* bases, one forward read starting at 95, one bin group 1-1000.
ExampleFeature ==
    [reference |-> "chr1", feature_start |-> 100, feature_end |-> 110,
     strand |-> "+", extension |-> 20]
ExampleRead == Read("x", 95, 145, FALSE, 200, 99, 60)
ExampleBinGroups(resolution) == << <<Bin(1, 1000, resolution)>> >>

\* Fragments whose mates, two bases long, lie outside the region of a feature
\* centered at 10 and extended by 1: f (6..14) and g (7..14) have their
\* midpoint at 10, h (5..14) is nine bases long, i (2..6) lies to the left.
FarReads ==
    { Read("f", 6, 8, FALSE, 8, 99, 60),
      Read("f", 12, 14, TRUE, -8, 147, 60),
      Read("g", 7, 9, FALSE, 7, 99, 60),
      Read("g", 12, 14, TRUE, -7, 147, 60),
      Read("h", 5, 7, FALSE, 9, 99, 60),
      Read("i", 4, 6, TRUE, -4, 147, 60) }

FarReadLists ==
    {l \in SeqsUpTo(FarReads, MaxReads) :
        \A i, j \in 1..Len(l) : i # j => l[i] # l[j]}

\* Bins up to 8 bases, in one group and in two.
FarBinGroups ==
    { << <<Bin(1, 8, 1)>> >>, << <<Bin(1, 2, 1)>>, <<Bin(3, 8, 1)>> >>,
      << <<Bin(1, 2, 1), Bin(3, 8, 1)>> >> }

\* Nothing of the other specifications runs.
OnlyScoring ==
    /\ PoolIdle
    /\ bins_string = <<>> /\ parse_state = "idle" /\ parsed = NotParsed
    /\ v_scores = <<>> /\ v_resolution = 1 /\ v_extension = 0
    /\ v_state = "idle" /\ v_result = <<>>
    /\ TreeIdle

InitScoring ==
    /\ OnlyScoring
    /\ s_state = "idle"
    /\ s_result = <<>>
    /\ \/ /\ s_segments \in ReadLists
          /\ s_flags \in FlagChoices
          /\ s_feature = ScoringFeature(8, "+", MaxExtension)
          /\ s_bin_groups = PoolBinGroups
          /\ s_offset = DEFAULT_CUT_POINT_OFFSET
       \/ /\ s_segments \in ReadLists
          /\ s_flags = DefaultFlags
          /\ s_feature \in ScoringFeatures
          /\ s_bin_groups \in ScoringBinGroups
          /\ s_offset \in {2, DEFAULT_CUT_POINT_OFFSET}
       \/ /\ s_segments \in FarReadLists
          /\ s_flags = DefaultFlags
          /\ s_feature \in ScoringFeatures
          /\ s_bin_groups \in FarBinGroups
          /\ s_offset = DEFAULT_CUT_POINT_OFFSET
       \/ /\ s_segments = <<ExampleRead>>
          /\ s_flags = DefaultFlags
          /\ s_feature = ExampleFeature
          /\ s_bin_groups \in {ExampleBinGroups(1), ExampleBinGroups(5)}
          /\ s_offset = DEFAULT_CUT_POINT_OFFSET

\* What a call leaves alone: its arguments and the other specifications.
scoreInputs == <<binVars, poolVars, vecVars, treeVars, s_segments, s_feature, s_bin_groups, s_flags, s_offset>>

FilterAlignedSegments ==
    /\ s_state = "idle"
    /\ s_state' = "filter_aligned_segments"
    /\ s_result' = filter_aligned_segments(s_segments, s_flags.include_flags,
                                           s_flags.exclude_flags, s_flags.quality)
    /\ UNCHANGED scoreInputs

CountCutPoints ==
    /\ s_state = "idle"
    /\ s_state' = "count_cut_points"
    /\ s_result' = count_cut_points(s_segments, region_start(s_feature),
                                    region_end(s_feature), s_offset)
    /\ UNCHANGED scoreInputs

CountMidpoints ==
    /\ s_state = "idle"
    /\ s_state' = "count_midpoints"
    /\ s_result' = count_midpoints(s_segments, s_feature)
    /\ UNCHANGED scoreInputs

\* The source the scorers fetch from holds the segments of the call.
ScoringSource == [references |-> {"chr1"}, reads |-> s_segments]

ScoreFeatureWithCutPoints ==
    /\ s_state = "idle"
    /\ CoordinateSorted(s_segments)
    /\ s_state' = "score_feature_with_cut_points"
    /\ s_result' = score_feature_with_cut_points([id |-> 1], ScoringSource, <<>>,
                       s_bin_groups, s_flags.include_flags, s_flags.exclude_flags,
                       s_flags.quality, s_offset, s_feature)
    /\ UNCHANGED scoreInputs

ScoreFeatureWithMidpoints ==
    /\ s_state = "idle"
    /\ CoordinateSorted(s_segments)
    /\ s_state' = "score_feature_with_midpoints"
    /\ s_result' = score_feature_with_midpoints([id |-> 1], ScoringSource, <<>>,
                       s_bin_groups, s_flags.include_flags, s_flags.exclude_flags,
                       s_flags.quality, s_feature)
    /\ UNCHANGED scoreInputs

ScoreFeature ==
    /\ s_state = "idle"
    /\ CoordinateSorted(s_segments)
    /\ s_state' = "score_feature"
    /\ s_result' = score_feature(ScoringSource, s_bin_groups, s_flags.include_flags,
                       s_flags.exclude_flags, s_flags.quality, s_feature, s_offset)
    /\ UNCHANGED scoreInputs

NextScoring ==
    \/ FilterAlignedSegments
    \/ CountCutPoints
    \/ CountMidpoints
    \/ ScoreFeatureWithCutPoints
    \/ ScoreFeatureWithMidpoints
    \/ ScoreFeature

SpecScoring == InitScoring /\ [][NextScoring]_vars

----------------------------------------------------------------------------
(***************************************************************************)
(* The claims about the filter, the counters and the scorers.              *)
(***************************************************************************)

\* The reads a scorer counts: the fetched reads that pass the filter.
ScoringSegments ==
    filter_aligned_segments(
        fetch([id |-> 1], ScoringSource, s_feature.reference,
              Max(0, region_start(s_feature)), region_end(s_feature)).val,
        s_flags.include_flags, s_flags.exclude_flags, s_flags.quality)

\* The feature of the call on the given strand.
OnStrand(strand) == [s_feature EXCEPT !.strand = strand]

\* The forward and the reverse count vector of one bin, before reduction.
BinVectors(bin, feature) ==
    LET scored == ScoreCutBin([group_rows |-> <<>>, tree |-> EmptyDict],
                      Bin(bin[1], bin[2], 1), AllKey, ScoringSegments, feature, s_offset)
        row == scored.group_rows[1]
    IN [F |-> SubSeq(row, 1, Len(row) \div 2), R |-> SubSeq(row, Len(row) \div 2 + 1, Len(row))]

\* region_tree[position][group_key][strand], 0 where the tree has no entry.
TreeCount(tree, position, group_key, strand) ==
    IF position \notin DOMAIN tree THEN 0
    ELSE IF group_key \notin DOMAIN tree[position] THEN 0
    ELSE IF strand \notin DOMAIN tree[position][group_key] THEN 0
    ELSE tree[position][group_key][strand]

\* a is b read from its other end.
Mirrors(a, b) == Len(a) = Len(b) /\ \A i \in 1..Len(a) : a[i] = b[Len(b) + 1 - i]

\* C13. For a feature on the reverse strand, the forward vector of every bin is
\* the reverse vector computed for the same feature on the forward strand, read
\* backwards, and its reverse vector the forward one read backwards; the
\* counts the scorer writes to the tree under F and R are mirrored the same way.
C13_ReverseStrandSwap ==
    (s_state = "score_feature_with_cut_points" /\ is_reverse(s_feature) /\ s_bin_groups # <<>>) =>
        LET plus == score_feature_with_cut_points([id |-> 1], ScoringSource, <<>>,
                        s_bin_groups, s_flags.include_flags, s_flags.exclude_flags,
                        s_flags.quality, s_offset, OnStrand("+"))
            e == s_feature.extension
        IN /\ \A g \in 1..Len(s_bin_groups) : \A b \in 1..Len(s_bin_groups[g]) :
                  LET minus == BinVectors(s_bin_groups[g][b], s_feature)
                      fwd == BinVectors(s_bin_groups[g][b], OnStrand("+"))
                  IN /\ Len(minus.F) = 2 * e
                     /\ Mirrors(minus.F, fwd.R)
                     /\ Mirrors(minus.R, fwd.F)
           /\ s_result.exc = "none" /\ plus.exc = "none"
           /\ DOMAIN s_result.val[3] \subseteq (0 - e)..(e - 1)
           /\ \A position \in (0 - e)..(e - 1) : \A g \in 1..Len(s_bin_groups) :
                  LET key == make_bin_group_key(s_bin_groups[g]) IN
                  /\ TreeCount(s_result.val[3], position, key, "F")
                         = TreeCount(plus.val[3], 0 - position - 1, key, "R")
                  /\ TreeCount(s_result.val[3], position, key, "R")
                         = TreeCount(plus.val[3], 0 - position - 1, key, "F")

\* A reverse-strand feature scored with reads of both strands in its region,
\* whose forward and reverse counts differ.
C13_Witness ==
    /\ s_state = "score_feature_with_cut_points"
    /\ is_reverse(s_feature)
    /\ s_bin_groups # <<>>
    /\ s_result.exc = "none"
    /\ \E p, q \in DOMAIN s_result.val[3] :
          LET key == make_bin_group_key(s_bin_groups[1]) IN
          /\ TreeCount(s_result.val[3], p, key, "F") > 0
          /\ TreeCount(s_result.val[3], q, key, "R") > 0
          /\ TreeCount(s_result.val[3], p, key, "R") = 0

\* The fragment of a read: it starts where the forward mate starts and ends
\* where the reverse mate ends, |isize| bases later.
FragmentStart(read) ==
    IF read.is_reverse THEN read.reference_end - Abs(read.isize) ELSE read.reference_start
FragmentMidpoint(read) == FragmentStart(read) + (Abs(read.isize) \div 2)

QueryNames == {s_segments[k].qname : k \in 1..Len(s_segments)}
Mates(qname) == {k \in 1..Len(s_segments) : s_segments[k].qname = qname}
FirstMate(qname) == s_segments[CHOOSE k \in Mates(qname) : \A j \in Mates(qname) : k <= j]
InRegion(position) == region_start(s_feature) <= position /\ position < region_end(s_feature)

\* The position the i-th count of a vector over the region stands for.
PositionOf(i) ==
    IF is_reverse(s_feature) THEN region_end(s_feature) - i ELSE region_start(s_feature) + i - 1

\* C14. count_midpoints counts, at every position of the region, the query
\* names whose first read has its fragment midpoint there: a pair never adds
\* more than one midpoint, and a pair with both mates present and its fragment
\* midpoint in the region adds exactly one.
C14_OneMidpointPerPair ==
    s_state = "count_midpoints" =>
        /\ Len(s_result) = 2 * s_feature.extension
        /\ \A i \in 1..Len(s_result) :
              s_result[i] = Cardinality({q \in QueryNames :
                                FragmentMidpoint(FirstMate(q)) = PositionOf(i)})
        /\ SumSeq(s_result) <= Cardinality(QueryNames)
        /\ \A q \in QueryNames :
              (Cardinality(Mates(q)) = 2 /\ InRegion(FragmentMidpoint(FirstMate(q)))) =>
                  \E i \in 1..Len(s_result) :
                      /\ PositionOf(i) = FragmentMidpoint(FirstMate(q))
                      /\ s_result[i] = 1 + Cardinality({o \in QueryNames \ {q} :
                                           FragmentMidpoint(FirstMate(o)) = PositionOf(i)})

\* Both mates of a pair passed, reverse mate first, with the fragment midpoint
\* in the region: one midpoint counted.
C14_Witness ==
    /\ s_state = "count_midpoints"
    /\ Len(s_segments) = 2
    /\ s_segments[1].qname = s_segments[2].qname
    /\ s_segments[1].is_reverse
    /\ InRegion(FragmentMidpoint(s_segments[1]))
    /\ SumSeq(s_result) = 1

\* The row of a returned triple, and the half of it that holds the forward
\* counts of a single bin.
RowOf(result) == result.val[2].tab_joined
ForwardPart(row) == SubSeq(row, 1, Len(row) \div 2)

\* The vector of `length` zeros with a single 1 at `index`, counted from 0.
SingleOne(length, index) == [i \in 1..length |-> IF i = index + 1 THEN 1 ELSE 0]

ExampleScored ==
    /\ s_state = "score_feature_with_cut_points"
    /\ s_feature = ExampleFeature
    /\ s_segments = <<ExampleRead>>

ExampleResolution == s_bin_groups[1][1][3]

\* C15. The example as the documentation states it: the region of chr1:100-110
\* extended by 20 is [90,130), the forward read starting at 95 is counted at
\* index 9 of the forward part of the row, and in bucket 1 at resolution 5.
C15_Example ==
    ExampleScored =>
        /\ region_start(s_feature) = 90 /\ region_end(s_feature) = 130
        /\ s_result.exc = "none"
        /\ ExampleResolution = 1 => ForwardPart(RowOf(s_result)) = SingleOne(40, 9)
        /\ ExampleResolution = 5 => ForwardPart(RowOf(s_result)) = SingleOne(8, 1)

\* C15, amended. The region is [85,125), 20 bases either side of the center
\* 105; the cut point 99 is counted at index 14 (99 - 85) of the forward part
\* of the row and, at resolution 5, in bucket 2 (14 // 5); the other counts of
\* the forward part and the whole reverse part are 0.
C15_ExampleFromCenter ==
    ExampleScored =>
        /\ center(s_feature) = 105
        /\ region_start(s_feature) = 85 /\ region_end(s_feature) = 125
        /\ find_cut_point(ExampleRead, s_offset) = 99
        /\ s_result.exc = "none"
        /\ ExampleResolution = 1 =>
              RowOf(s_result) = SingleOne(40, 14) \o [i \in 1..40 |-> 0]
        /\ ExampleResolution = 5 =>
              RowOf(s_result) = SingleOne(8, 2) \o [i \in 1..8 |-> 0]

\* The example scored at resolution 5.
C15_Witness ==
    /\ ExampleScored
    /\ ExampleResolution = 5
    /\ s_result.exc = "none"
    /\ SumSeq(RowOf(s_result)) = 1

\* The bits set in a SAM flag.
FlagBits(flag) == {b \in 0..11 : (flag \div (2 ^ b)) % 2 = 1}

\* The rule of the filter: the mapping quality reaches the threshold, every bit
\* of some inclusion mask is set in the flag, and no bit of any exclusion mask.
Passes(read) ==
    /\ read.mapping_quality >= s_flags.quality
    /\ \E f \in s_flags.include_flags : FlagBits(f) \subseteq FlagBits(read.flag)
    /\ \A f \in s_flags.exclude_flags : FlagBits(f) \cap FlagBits(read.flag) = {}

Passing == {k \in 1..Len(s_segments) : Passes(s_segments[k])}
NthPassing(n) == CHOOSE k \in Passing : Cardinality({j \in Passing : j <= k}) = n

\* C16. filter_aligned_segments returns exactly the reads that pass the rule,
\* in the order of its input: a read passes when its mapping quality is at
\* least the threshold, its flag has every bit of at least one inclusion mask
\* (other bits may be set as well), and its flag has no bit of any exclusion
\* mask; with no inclusion mask no read passes.
C16_FilterRule ==
    s_state = "filter_aligned_segments" =>
        /\ Len(s_result) = Cardinality(Passing)
        /\ \A n \in 1..Len(s_result) : s_result[n] = s_segments[NthPassing(n)]
        /\ s_flags.include_flags = {} => s_result = <<>>

\* Two reads returned in their input order, the first with the duplicate bit
\* set beyond the inclusion mask 99.
C16_Witness ==
    /\ s_state = "filter_aligned_segments"
    /\ s_flags.include_flags = {99}
    /\ Len(s_segments) = 2 /\ s_result = s_segments
    /\ s_segments[1].flag = 1123

\* The reads of the call a scorer counts: those overlapping the region that
\* pass the filter.
Counted ==
    {k \in 1..Len(s_segments) :
        /\ s_segments[k].reference_start < region_end(s_feature)
        /\ s_segments[k].reference_end > Max(0, region_start(s_feature))
        /\ Passes(s_segments[k])}

\* The cut point of a read: s_offset bases in from the end its strand starts at.
CutPointOf(read) ==
    IF read.is_reverse THEN (read.reference_end - 1) - s_offset
    ELSE read.reference_start + s_offset

\* C17. With no bin groups the cut-point scorer returns a row of one count per
\* position of the extended region, 2 x extension long and read backwards for
\* a feature on the reverse strand, each the number of filtered reads with
\* their cut point there, whatever their template length and strand; the tree
\* holds the row's nonzero counts under the key All and the strand Both, and
\* nothing else.
C17_BareMode ==
    (s_state = "score_feature_with_cut_points" /\ s_bin_groups = <<>>) =>
        /\ s_result.exc = "none"
        /\ LET row == RowOf(s_result)
               tree == s_result.val[3]
               e == s_feature.extension
           IN /\ Len(row) = 2 * e
              /\ \A i \in 1..Len(row) :
                    /\ row[i] = Cardinality({k \in Counted :
                                    CutPointOf(s_segments[k]) = PositionOf(i)})
                    /\ (i - 1 - e \in DOMAIN tree) <=> (row[i] > 0)
                    /\ TreeCount(tree, i - 1 - e, AllKey, "Both") = row[i]
              /\ DOMAIN tree \subseteq (0 - e)..(e - 1)
              /\ \A position \in DOMAIN tree :
                    /\ DOMAIN tree[position] = {AllKey}
                    /\ DOMAIN tree[position][AllKey] = {"Both"}

\* A reverse-strand feature scored in bare mode with a forward and a reverse
\* read of different template lengths, both counted.
C17_Witness ==
    /\ s_state = "score_feature_with_cut_points"
    /\ s_bin_groups = <<>>
    /\ is_reverse(s_feature)
    /\ Len(s_segments) = 2
    /\ s_segments[1].is_reverse # s_segments[2].is_reverse
    /\ Abs(s_segments[1].isize) # Abs(s_segments[2].isize)
    /\ s_result.exc = "none"
    /\ SumSeq(RowOf(s_result)) = 2
    /\ RowOf(s_result) # Reversed(RowOf(s_result))

\* C18. In midpoint mode no call a worker makes for a feature fails for the
\* arguments it binds: the scorer runs with the feature as its feature and the
\* bin groups, flag sets and quality as their own parameters, so the
\* coordinator receives, for each feature it has a result for, the triple
\* (feature, row, tree) of that feature, and for all features when the
\* iteration ends.
C18_MidpointScorerInvoked ==
    mode = "mid" =>
        /\ error # "TypeError"
        /\ \A i \in 1..Len(received) :
              /\ i <= Len(features)
              /\ received[i][1] = features[i]
              /\ received[i] = score_feature_with_midpoints([id |-> 1], AlignmentSource, <<>>,
                                   PoolBinGroups, PoolIncludeFlags, PoolExcludeFlags,
                                   PoolQuality, features[i]).val
        /\ coord = "done" => Len(received) = Len(features)

\* C19. For a bin scored by the cut-point scorer, the part of the row the bin
\* gives is aggregate_scores of its forward vector followed by
\* aggregate_scores of its reverse vector, at the feature's extension and the
\* bin's resolution: the leading and the trailing `extension` positions of
\* each vector are reduced on their own, whether or not the resolution divides
\* the extension.
C19_RowIsAggregated ==
    (/\ s_state = "score_feature_with_cut_points"
     /\ Len(s_bin_groups) = 1
     /\ Len(s_bin_groups[1]) = 1) =>
        LET bin == s_bin_groups[1][1]
            vectors == BinVectors(bin, s_feature)
        IN /\ s_result.exc = "none"
           /\ RowOf(s_result) =
                 aggregate_scores(vectors.F, s_feature.extension, bin[3])
                 \o aggregate_scores(vectors.R, s_feature.extension, bin[3])

\* The reads of the call that have at least s_offset + 1 aligned bases.
LongEnough == {k \in 1..Len(s_segments) :
                  s_segments[k].reference_end - s_segments[k].reference_start >= s_offset + 1}

\* C20. count_cut_points counts, at each position of the region, only cut
\* points of reads with at least offset + 1 aligned bases: a shorter read adds
\* nothing to any position, on either strand.
C20_ShortReadsExcluded ==
    s_state = "count_cut_points" =>
        /\ Len(s_result) = 2 * s_feature.extension
        /\ \A i \in 1..Len(s_result) :
              s_result[i] = Cardinality({k \in LongEnough :
                                CutPointOf(s_segments[k]) = region_start(s_feature) + i - 1})

\* The reads the bins of a group select: those whose template length lies in
\* one of the bins.
InGroup(group) ==
    {k \in Counted : \E b \in 1..Len(group) :
        group[b][1] <= Abs(s_segments[k].isize) /\ Abs(s_segments[k].isize) <= group[b][2]}

\* The position of a genomic position relative to the feature's center, along
\* the feature's strand.
RelativeToCenter(position) ==
    IF is_reverse(s_feature) THEN center(s_feature) - position
    ELSE position - center(s_feature)

\* C21. The tree the cut-point scorer returns is keyed by the position
\* relative to the feature's center: at key k it holds, for every bin group
\* (for All in bare mode), as many cut points as the group's counted reads have
\* at the genomic position p with p - center = k for a forward-strand feature
\* and center - p = k for a reverse-strand feature; a cut point at the center
\* is under key 0.
C21_KeysRelativeToCenter ==
    s_state = "score_feature_with_cut_points" =>
        /\ s_result.exc = "none"
        /\ LET tree == s_result.val[3]
               e == s_feature.extension
           IN \A k \in (0 - e - 1)..(e + 1) :
                 IF s_bin_groups = <<>>
                 THEN TreeCount(tree, k, AllKey, "Both")
                          = Cardinality({r \in Counted :
                                /\ InRegion(CutPointOf(s_segments[r]))
                                /\ RelativeToCenter(CutPointOf(s_segments[r])) = k})
                 ELSE \A g \in 1..Len(s_bin_groups) :
                          LET key == make_bin_group_key(s_bin_groups[g]) IN
                          TreeCount(tree, k, key, "F") + TreeCount(tree, k, key, "R")
                              = Cardinality({r \in InGroup(s_bin_groups[g]) :
                                    /\ InRegion(CutPointOf(s_segments[r]))
                                    /\ RelativeToCenter(CutPointOf(s_segments[r])) = k})

----------------------------------------------------------------------------
(***************************************************************************)
(* A region tree and the calls that add counts to it.                      *)
(***************************************************************************)

TreeVectors == UNION {[1..n -> 0..MaxAdded] : n \in 0..MaxPositions}
TreeGroupKeys == {AllKey, make_bin_group_key(<<Bin(1, 100, 1)>>)}
TreeStrands == {"F", "R", "Both"}

\* The group key and strand the scorer passes: All and Both in bare mode
\* (cut.py 211), a bin group's key with F or R otherwise (cut.py 198-199).
TreePaths == {<<AllKey, "Both">>} \cup ((TreeGroupKeys \ {AllKey}) \X {"F", "R"})

\* Nothing of the other specifications runs.
OnlyTrees ==
    /\ PoolIdle
    /\ bins_string = <<>> /\ parse_state = "idle" /\ parsed = NotParsed
    /\ v_scores = <<>> /\ v_resolution = 1 /\ v_extension = 0
    /\ v_state = "idle" /\ v_result = <<>>
    /\ s_segments = <<>> /\ s_feature = <<>> /\ s_bin_groups = <<>> /\ s_flags = <<>>
    /\ s_offset = 0 /\ s_state = "idle" /\ s_result = <<>>

\* tree = {} (cut.py 175, mid.py 196).
InitTrees ==
    /\ OnlyTrees
    /\ t_kind \in {"cut", "mid"}
    /\ t_tree = EmptyDict
    /\ t_vector = <<>>
    /\ t_calls = 0

AddCutPointsToRegionTree ==
    /\ t_kind = "cut"
    /\ t_calls < MaxCalls
    /\ \E path \in TreePaths, cut_points \in TreeVectors :
          /\ t_tree' = add_cut_points_to_region_tree(t_tree, path[1], path[2], cut_points)
          /\ t_vector' = cut_points
    /\ t_calls' = t_calls + 1
    /\ UNCHANGED <<binVars, poolVars, vecVars, scoreVars, t_kind>>

AddMidpointsToRegionTree ==
    /\ t_kind = "mid"
    /\ t_calls < MaxCalls
    /\ \E group_key \in TreeGroupKeys, midpoints \in TreeVectors :
          /\ t_tree' = add_midpoints_to_region_tree(t_tree, group_key, midpoints)
          /\ t_vector' = midpoints
    /\ t_calls' = t_calls + 1
    /\ UNCHANGED <<binVars, poolVars, vecVars, scoreVars, t_kind>>

NextTrees ==
    \/ AddCutPointsToRegionTree
    \/ AddMidpointsToRegionTree

SpecTrees == InitTrees /\ [][NextTrees]_vars

\* The counts a tree stores, as a function of their paths: (position, group
\* key, strand) in a tree of cut points, (position, group key) in a tree of
\* midpoints.
Entries(kind, tree) ==
    IF kind = "cut"
    THEN {<<position, group_key, strand>> \in
              (DOMAIN tree) \X TreeGroupKeys \X TreeStrands :
              /\ group_key \in DOMAIN tree[position]
              /\ strand \in DOMAIN tree[position][group_key]}
    ELSE {<<position, group_key>> \in (DOMAIN tree) \X TreeGroupKeys :
              group_key \in DOMAIN tree[position]}

Stored(kind, tree, path) ==
    IF kind = "cut" THEN tree[path[1]][path[2]][path[3]] ELSE tree[path[1]][path[2]]

\* Whether the tree has a dictionary with no entry, or a key outside the sets.
NoEmptyLevel(kind, tree) ==
    \A position \in DOMAIN tree :
        /\ DOMAIN tree[position] # {}
        /\ DOMAIN tree[position] \subseteq TreeGroupKeys
        /\ kind = "cut" => \A group_key \in DOMAIN tree[position] :
               /\ DOMAIN tree[position][group_key] # {}
               /\ DOMAIN tree[position][group_key] \subseteq TreeStrands

\* The count the vector of the last call has for a position key, 0 outside it.
Added(vector, position) ==
    LET i == position + (Len(vector) \div 2) + 1 IN
    IF i \in 1..Len(vector) THEN vector[i] ELSE 0

\* One call on the tree: no entry is lost, no count decreases, and an entry
\* is new or larger only by the positive count the vector has at its
\* position, which lies in [-len // 2, len - len // 2).
CallAdds ==
    /\ Entries(t_kind, t_tree) \subseteq Entries(t_kind, t_tree')
    /\ \A path \in Entries(t_kind, t_tree) :
          Stored(t_kind, t_tree', path) >= Stored(t_kind, t_tree, path)
    /\ \A path \in Entries(t_kind, t_tree') :
          (path \notin Entries(t_kind, t_tree)
             \/ Stored(t_kind, t_tree', path) # Stored(t_kind, t_tree, path)) =>
              /\ 0 - (Len(t_vector') \div 2) <= path[1]
              /\ path[1] < Len(t_vector') - (Len(t_vector') \div 2)
              /\ Added(t_vector', path[1]) > 0
              /\ Stored(t_kind, t_tree', path) =
                     Added(t_vector', path[1])
                     + (IF path \in Entries(t_kind, t_tree)
                        THEN Stored(t_kind, t_tree, path) ELSE 0)

\* C22. After any sequence of add_cut_points_to_region_tree or
\* add_midpoints_to_region_tree calls on a tree, every count it stores is
\* positive and no dictionary of it is empty; each call keeps every entry,
\* decreases no count, and creates or increases entries only at positions of
\* its vector with a positive count, keyed in [-len // 2, len - len // 2).
C22_SparseMonotoneTree ==
    /\ [](t_kind # "none" =>
            /\ NoEmptyLevel(t_kind, t_tree)
            /\ \A path \in Entries(t_kind, t_tree) : Stored(t_kind, t_tree, path) > 0)
    /\ [][t_kind # "none" => CallAdds]_vars

\* A second call whose vector has zeros and a positive count at a position
\* the tree already holds.
C22_Witness ==
    /\ t_kind = "cut"
    /\ t_calls = 2
    /\ \E i, j \in 1..Len(t_vector) : t_vector[i] = 0 /\ t_vector[j] > 0
    /\ \E path \in Entries(t_kind, t_tree) : Stored(t_kind, t_tree, path) > MaxAdded

\* The largest upper bound of the configured bins, and the window the
\* midpoint scorer fetches reads from.
Uppers ==
    UNION {{s_bin_groups[g][b][2] : b \in 1..Len(s_bin_groups[g])} : g \in 1..Len(s_bin_groups)}
LargestUpper == CHOOSE m \in Uppers : \A u \in Uppers : u <= m
WindowStart == Max(0, region_start(s_feature) - (LargestUpper \div 2))
WindowEnd == region_end(s_feature) + (LargestUpper \div 2)

\* The fragments of a group that qualify: properly paired reads that pass the
\* filter, a template length in one of the group's bins, the midpoint in the
\* region.
Qualifying(group) ==
    {q \in QueryNames :
        /\ \A k \in Mates(q) : Passes(s_segments[k])
        /\ \E b \in 1..Len(group) :
              /\ group[b][1] <= Abs(FirstMate(q).isize)
              /\ Abs(FirstMate(q).isize) <= group[b][2]
        /\ InRegion(FragmentMidpoint(FirstMate(q)))}

\* The key the scorer's tree has for a genomic position of the region.
TreeKeyOf(position) ==
    (IF is_reverse(s_feature) THEN region_end(s_feature) - position - 1
     ELSE position - region_start(s_feature)) - s_feature.extension

\* region_tree[position][group_key] of a tree of midpoints, 0 if absent.
MidTreeCount(tree, position, group_key) ==
    IF position \notin DOMAIN tree THEN 0
    ELSE IF group_key \notin DOMAIN tree[position] THEN 0
    ELSE tree[position][group_key]

\* C23. In midpoint mode no qualifying fragment is lost to the fetch window
\* [max(0, region_start - M // 2), region_end + M // 2), M the largest upper
\* bound of the bins: a mate of the fragment overlaps the window, and the
\* fragment is counted at its midpoint under its group's key.
C23_WindowKeepsFragments ==
    (s_state = "score_feature_with_midpoints" /\ s_bin_groups # <<>>) =>
        /\ s_result.exc = "none"
        /\ \A g \in 1..Len(s_bin_groups) : \A q \in Qualifying(s_bin_groups[g]) :
              /\ \E k \in Mates(q) :
                    /\ s_segments[k].reference_start < WindowEnd
                    /\ s_segments[k].reference_end > WindowStart
              /\ MidTreeCount(s_result.val[3], TreeKeyOf(FragmentMidpoint(FirstMate(q))),
                              make_bin_group_key(s_bin_groups[g]))
                     >= Cardinality({o \in Qualifying(s_bin_groups[g]) :
                            FragmentMidpoint(FirstMate(o)) = FragmentMidpoint(FirstMate(q))})
              /\ SumSeq(RowOf(s_result)) >= 1

\* Both mates of a fragment outside the region, each closer to it than half
\* the largest bin, and the fragment counted.
C23_Witness ==
    /\ s_state = "score_feature_with_midpoints"
    /\ s_bin_groups = << <<Bin(1, 2, 1)>>, <<Bin(3, 8, 1)>> >>
    /\ s_feature.extension = 1
    /\ Len(s_segments) = 2
    /\ s_segments[1].qname = s_segments[2].qname
    /\ \A k \in 1..2 : ~(/\ s_segments[k].reference_start < region_end(s_feature)
                         /\ s_segments[k].reference_end > region_start(s_feature))
    /\ s_result.exc = "none"
    /\ SumSeq(RowOf(s_result)) = 1

\* What the scorers count in the bins of a group: in cut-point mode the
\* counted reads of the bins with their cut point in the region, in midpoint
\* mode the query names with a filtered read of the bins in the fetch window,
\* the first of which has its midpoint in the region.
CutEvents(group) == {k \in InGroup(group) : InRegion(CutPointOf(s_segments[k]))}

MidCounted(group) ==
    {k \in 1..Len(s_segments) :
        /\ s_segments[k].reference_start < WindowEnd
        /\ s_segments[k].reference_end > WindowStart
        /\ Passes(s_segments[k])
        /\ \E b \in 1..Len(group) :
              /\ group[b][1] <= Abs(s_segments[k].isize)
              /\ Abs(s_segments[k].isize) <= group[b][2]}

MidEvents(group) ==
    {q \in {s_segments[k].qname : k \in MidCounted(group)} :
        LET first == CHOOSE k \in MidCounted(group) :
                         /\ s_segments[k].qname = q
                         /\ \A j \in MidCounted(group) : s_segments[j].qname = q => k <= j
        IN InRegion(FragmentMidpoint(s_segments[first]))}

\* The part of the row a group gives: `vectors` reduced vectors of the region
\* (2 in cut-point mode, 1 in midpoint mode) at the group's resolution.
SegmentLength(group, vectors) ==
    vectors * ((2 * s_feature.extension + group[1][3] - 1) \div group[1][3])
SegmentStart(g, vectors) ==
    SumSeq([h \in 1..(g - 1) |-> SegmentLength(s_bin_groups[h], vectors)])
Segment(row, g, vectors) ==
    SubSeq(row, SegmentStart(g, vectors) + 1,
           SegmentStart(g, vectors) + SegmentLength(s_bin_groups[g], vectors))

\* C24. For every bin group of a scoring call, the group's part of the row
\* sums to the number of events counted in the group's bins, which is also the
\* sum of the counts the call stored in its tree under the group's key, over
\* all positions and, in cut-point mode, both strands.
C24_RowAndTreeTotals ==
    (s_state \in {"score_feature_with_cut_points", "score_feature_with_midpoints"}
     /\ s_bin_groups # <<>>) =>
        /\ s_result.exc = "none"
        /\ LET e == s_feature.extension
               row == RowOf(s_result)
               tree == s_result.val[3]
               cut == s_state = "score_feature_with_cut_points"
               vectors == IF cut THEN 2 ELSE 1
           IN /\ Len(row) = SegmentStart(Len(s_bin_groups) + 1, vectors)
              /\ \A g \in 1..Len(s_bin_groups) :
                    LET key == make_bin_group_key(s_bin_groups[g])
                        events == IF cut THEN Cardinality(CutEvents(s_bin_groups[g]))
                                  ELSE Cardinality(MidEvents(s_bin_groups[g]))
                    IN /\ SumSeq(Segment(row, g, vectors)) = events
                       /\ events = SumSeq([i \in 1..(2 * e) |->
                                     IF cut
                                     THEN TreeCount(tree, i - 1 - e, key, "F")
                                          + TreeCount(tree, i - 1 - e, key, "R")
                                     ELSE MidTreeCount(tree, i - 1 - e, key)])

\* A group of two bins scored in cut-point mode with a read in each bin.
C24_Witness ==
    /\ s_state = "score_feature_with_cut_points"
    /\ s_bin_groups = << <<Bin(1, 6, 1), Bin(7, 100, 1)>> >>
    /\ s_result.exc = "none"
    /\ \E k, j \in CutEvents(s_bin_groups[1]) :
          Abs(s_segments[k].isize) <= 6 /\ Abs(s_segments[j].isize) >= 7
    /\ SumSeq(RowOf(s_result)) = 2

\* The mates of the properly paired fragment of `length` bases at `start`,
\* each read as long as the fragment allows, up to 2 bases.
ForwardMate(start, length) ==
    Read("p", start, start + Min(2, length), FALSE, length, 99, 60)
ReverseMate(start, length) ==
    Read("p", start + length - Min(2, length), start + length, TRUE, 0 - length, 147, 60)

\* Whether two reads of the call are the mates of one fragment.
MatesOfOneFragment(forward, reverse) ==
    /\ forward.qname = reverse.qname
    /\ ~forward.is_reverse /\ reverse.is_reverse
    /\ forward.isize >= 1 /\ reverse.isize = 0 - forward.isize
    /\ reverse.reference_end = forward.reference_start + forward.isize

\* C25. find_midpoint gives one position for the two mates of a properly
\* paired fragment, start + length // 2, for even and odd lengths, so that
\* count_midpoints returns the same counts whichever mate it meets first.
C25_MidpointOfEitherMate ==
    s_state = "count_midpoints" =>
        /\ \A start \in 0..MaxLen, length \in 1..(2 * MaxLen) :
              /\ find_midpoint(ForwardMate(start, length)) = start + (length \div 2)
              /\ find_midpoint(ReverseMate(start, length)) = start + (length \div 2)
        /\ \A i, j \in 1..Len(s_segments) :
              MatesOfOneFragment(s_segments[i], s_segments[j]) =>
                  find_midpoint(s_segments[i]) = find_midpoint(s_segments[j])
        /\ (\A i, j \in 1..Len(s_segments) :
               (i # j /\ s_segments[i].qname = s_segments[j].qname) =>
                   \/ MatesOfOneFragment(s_segments[i], s_segments[j])
                   \/ MatesOfOneFragment(s_segments[j], s_segments[i]))
           => s_result = count_midpoints([k \in 1..Len(s_segments) |->
                                             s_segments[Len(s_segments) + 1 - k]], s_feature)

\* The mates of a fragment of odd length counted with the reverse mate first.
C25_Witness ==
    /\ s_state = "count_midpoints"
    /\ Len(s_segments) = 2
    /\ MatesOfOneFragment(s_segments[2], s_segments[1])
    /\ s_segments[2].isize % 2 = 1
    /\ SumSeq(s_result) = 1

\* C26. parse_bins raises no error for a configuration whose groups are well
\* formed and whose bins are pairwise disjoint, a single bin and a first bin
\* starting at 0 included: it returns the groups.
C26_DisjointBinsAccepted ==
    (parse_state # "idle" /\ WellFormed(bins_string) /\ ~SomeOverlap(bins_string)) =>
        parse_state = "returned"

\* The number of events of a group on a strand of the reads.
StrandEvents(group, reverse) ==
    Cardinality({k \in CutEvents(group) : s_segments[k].is_reverse = reverse})

\* The sum of the counts a tree holds under a group key and a strand.
TreeTotal(tree, group_key, strand) ==
    SumSeq([i \in 1..(2 * s_feature.extension) |->
               TreeCount(tree, i - 1 - s_feature.extension, group_key, strand)])

\* C27. In score_feature of metrics.py every read of a group's bins with its
\* cut point in the region is counted on its strand: for a forward-strand
\* feature the tree holds the forward reads of the group under F and its
\* reverse reads under R (for a reverse-strand feature, where the vectors are
\* swapped, the reverse reads under F and the forward reads under R), and the
\* row sums to the number of all of them.
C27_BothStrandsCounted ==
    (s_state = "score_feature" /\ s_bin_groups # <<>>) =>
        /\ s_result.exc = "none"
        /\ \A g \in 1..Len(s_bin_groups) :
              LET key == metrics_group_key(s_bin_groups[g])
                  tree == s_result.val[2]
              IN /\ TreeTotal(tree, key, "F")
                       = StrandEvents(s_bin_groups[g], is_reverse(s_feature))
                 /\ TreeTotal(tree, key, "R")
                       = StrandEvents(s_bin_groups[g], ~is_reverse(s_feature))
        /\ SumSeq(s_result.val[1].tab_joined)
               = SumSeq([g \in 1..Len(s_bin_groups) |->
                            Cardinality(CutEvents(s_bin_groups[g]))])

====
